---------------------------- MODULE Spec2Model ----------------------------
(***************************************************************************)
(* Memory engine of the multi-channel chatbot platform.                    *)
(*                                                                         *)
(*   src/memory-engine/app.py                    the HTTP memory service   *)
(*       (Redis short-term store, ChromaDB long-term store, background     *)
(*        embedding writes, session context, optimize_context)             *)
(*   src/services/memory-engine/services/*.py    MemoryManager, VectorStore*)
(*                                                                         *)
(* Strings that the code splits or searches on ':' are sequences of        *)
(* ':'-free segments; JSON texts are sequences of tokens produced by Dumps *)
(* and parsed by Loads; Python dicts are insertion-ordered sequences of    *)
(* <<key, value>> pairs; timestamps are readings of the clock `now`.       *)
(***************************************************************************)
EXTENDS Integers, Sequences, FiniteSets, TLC

\* ------------------------------------------------------------------ bounds
MaxTime == 2
MaxCreates == 2
MaxHist == 12
MaxAggHist == 21
MaxDocs == 2

\* --------------------------------------------------------- program constants
TOP_K == 3
HISTORY_LIMIT == 10
KEEP_FIRST == 2
KEEP_LAST == 8
SUMMARIZE_OVER == 20
SUMMARY_MIN_TURNS == 5
SUMMARY_KEEP == 10
SESSION_CONTEXT_TTL == 2

\* --------------------------------------------------------- Python values
None == [t |-> "null"]
\* a str holds the sequence of its ':'-free segments: "a:b" is <<"a", "b">>
Str(s) == [t |-> "str", v |-> s]
Num(n) == [t |-> "int", v |-> n]
\* a str that holds a JSON text (a document that did not parse)
RawText(text) == [t |-> "text", v |-> text]
Dict(pairs) == [t |-> "dict", v |-> pairs]
List(items) == [t |-> "list", v |-> items]
EmptyDict == Dict(<<>>)

\* bool(x) of a Python value: None, "", {} and [] are falsy
Truthy(x) ==
    CASE x.t = "null" -> FALSE
      [] x.t = "str" -> x.v # <<"">>
      [] x.t = "int" -> x.v # 0
      [] OTHER -> Len(x.v) > 0

Range(s) == {s[i] : i \in DOMAIN s}

DictKeys(d) == {d.v[i][1] : i \in DOMAIN d.v}

\* d.get(k, default)
DictGet(d, k, default) ==
    IF k \in DictKeys(d)
    THEN LET i == CHOOSE j \in DOMAIN d.v : d.v[j][1] = k IN d.v[i][2]
    ELSE default

\* d[k] = x : an existing key keeps its position, a new key is appended
DictSet(d, k, x) ==
    IF k \in DictKeys(d)
    THEN Dict([i \in DOMAIN d.v |-> IF d.v[i][1] = k THEN <<k, x>> ELSE d.v[i]])
    ELSE Dict(Append(d.v, <<k, x>>))

RECURSIVE DictUpdateFrom(_, _, _)
DictUpdateFrom(d, e, i) ==
    IF i > Len(e.v) THEN d
    ELSE DictUpdateFrom(DictSet(d, e.v[i][1], e.v[i][2]), e, i + 1)

\* d.update(e), also {**d, **e}
DictUpdate(d, e) == DictUpdateFrom(d, e, 1)

\* ------------------------------------------------------------------ JSON
\* Tokens of a JSON text: punctuation, an object key, a string, a number.
P(s) == [q |-> "p", s |-> s]
K(s) == [q |-> "k", s |-> s]
Q(s) == [q |-> "s", s |-> s]
N(n) == [q |-> "n", s |-> n]

RECURSIVE Dumps(_)
RECURSIVE DumpsPairs(_, _)
RECURSIVE DumpsItems(_, _)
DumpsPairs(ps, i) ==
    IF i > Len(ps) THEN <<>>
    ELSE (IF i > 1 THEN <<P(",")>> ELSE <<>>)
         \o <<K(ps[i][1]), P(":")>> \o Dumps(ps[i][2]) \o DumpsPairs(ps, i + 1)
DumpsItems(xs, i) ==
    IF i > Len(xs) THEN <<>>
    ELSE (IF i > 1 THEN <<P(",")>> ELSE <<>>)
         \o Dumps(xs[i]) \o DumpsItems(xs, i + 1)
\* json.dumps(x)
Dumps(x) ==
    CASE x.t = "null" -> <<P("null")>>
      [] x.t = "str" -> <<Q(x.v)>>
      [] x.t = "int" -> <<N(x.v)>>
      [] x.t = "dict" -> <<P("{")>> \o DumpsPairs(x.v, 1) \o <<P("}")>>
      [] x.t = "list" -> <<P("[")>> \o DumpsItems(x.v, 1) \o <<P("]")>>

\* The parser: each Parse* returns [ok, val, pos], pos the next unread token.
Bad == [ok |-> FALSE, val |-> None, pos |-> 0]
Tok(text, i) == IF i \in DOMAIN text THEN text[i] ELSE P("<eof>")
IsP(text, i, s) == Tok(text, i) = P(s)

RECURSIVE ParseValue(_, _)
RECURSIVE ParsePairs(_, _, _)
RECURSIVE ParseItems(_, _, _)
ParsePairs(text, i, acc) ==
    IF Tok(text, i).q # "k" \/ ~IsP(text, i + 1, ":") THEN Bad
    ELSE LET r == ParseValue(text, i + 2) IN
         IF ~r.ok THEN Bad
         ELSE LET acc2 == DictSet(acc, Tok(text, i).s, r.val) IN
              IF IsP(text, r.pos, ",") THEN ParsePairs(text, r.pos + 1, acc2)
              ELSE IF IsP(text, r.pos, "}")
                   THEN [ok |-> TRUE, val |-> acc2, pos |-> r.pos + 1]
                   ELSE Bad
ParseItems(text, i, acc) ==
    LET r == ParseValue(text, i) IN
    IF ~r.ok THEN Bad
    ELSE LET acc2 == Append(acc, r.val) IN
         IF IsP(text, r.pos, ",") THEN ParseItems(text, r.pos + 1, acc2)
         ELSE IF IsP(text, r.pos, "]")
              THEN [ok |-> TRUE, val |-> List(acc2), pos |-> r.pos + 1]
              ELSE Bad
ParseValue(text, i) ==
    LET tk == Tok(text, i) IN
    IF tk.q = "s" THEN [ok |-> TRUE, val |-> Str(tk.s), pos |-> i + 1]
    ELSE IF tk.q = "n" THEN [ok |-> TRUE, val |-> Num(tk.s), pos |-> i + 1]
    ELSE IF tk.q # "p" THEN Bad
    ELSE CASE tk.s = "null" -> [ok |-> TRUE, val |-> None, pos |-> i + 1]
           [] tk.s = "{" ->
                IF IsP(text, i + 1, "}")
                THEN [ok |-> TRUE, val |-> EmptyDict, pos |-> i + 2]
                ELSE ParsePairs(text, i + 1, EmptyDict)
           [] tk.s = "[" ->
                IF IsP(text, i + 1, "]")
                THEN [ok |-> TRUE, val |-> List(<<>>), pos |-> i + 2]
                ELSE ParseItems(text, i + 1, <<>>)
           [] OTHER -> Bad

\* json.loads(text): [ok |-> FALSE] stands for json.JSONDecodeError
Loads(text) ==
    LET r == ParseValue(text, 1) IN
    IF r.ok /\ r.pos = Len(text) + 1 THEN [ok |-> TRUE, val |-> r.val]
    ELSE [ok |-> FALSE, val |-> None]

\* ------------------------------------------------------------ identifiers
\* A string is the sequence of its ':'-free segments: "u1:short_term" is
\* <<"u1", "short_term">>.  <<>> stands for an absent (None) string argument.
NoStr == <<>>
\* variant of StrGiven: only None counts as absent
StrGivenNotNone(s) == s # NoStr
\* `if s:` of an optional string: None and "" are falsy
StrGiven(s) == s # NoStr /\ s # <<"">>

\* f"memory:{userId}:{type}:{key}"
MemoryId(userId, type, key) == <<"memory">> \o userId \o <<type>> \o key

\* f":{type}:" in mid, for a ':'-free type
ContainsType(mid, type) == \E i \in 2..(Len(mid) - 1) : mid[i] = type

\* mid.endswith(f":{key}")
EndsWithKey(mid, key) ==
    /\ Len(mid) > Len(key)
    /\ SubSeq(mid, Len(mid) - Len(key) + 1, Len(mid)) = key

\* memory_id.split(":")[-1]
LastSegment(mid) == <<mid[Len(mid)]>>

\* ------------------------------------------------------------ MemoryItem
TTL(n) == [given |-> TRUE, secs |-> n]
NoTTL == [given |-> FALSE, secs |-> 0]
\* `if memory_item.ttl:` : None and 0 are falsy
TTLTruthy(ttl) == ttl.given /\ ttl.secs # 0

MemoryItem(userId, type, key, value, metadata, ttl) ==
    [userId |-> userId, type |-> type, key |-> key, value |-> value,
     metadata |-> metadata, ttl |-> ttl]

\* ------------------------------------------------------------ embeddings
ZeroVector == <<0, 0>>
ProviderError == [ok |-> FALSE, vec |-> ZeroVector]
ProviderVector(v) == [ok |-> TRUE, vec |-> v]

\* generate_embedding: the provider's vector, the zero vector when it raises
generate_embedding(outcome) == IF outcome.ok THEN outcome.vec ELSE ZeroVector

\* ------------------------------------------------------ EmbeddingService
\* batch_size of get_embeddings, and stop_after_attempt of _get_embedding
BATCH_SIZE == 100
RETRY_ATTEMPTS == 3
\* The texts are numbered; the provider's embedding of text t is not zero.
TextEmbedding(t) == <<t, 1>>
\* response.data of the provider for a batch: one item per text, with the
\* index of the text in the batch, here in the reverse order
ProviderBatch(batch) ==
    [k \in DOMAIN batch |->
        [index |-> Len(batch) - k,
         embedding |-> TextEmbedding(batch[Len(batch) - k + 1])]]
\* sorted(response.data, key=lambda x: x.index), the indexes of the items
\* being 0 .. len - 1
SortedByIndex(data) ==
    [k \in DOMAIN data |-> data[CHOOSE p \in DOMAIN data : data[p].index = k - 1]]

\* EmbeddingService._get_embedding under @retry(stop_after_attempt(3)), from
\* the given attempt on: [ok, embedding, attempts].  calls[k] tells whether
\* the k-th call of the provider answers; ok = FALSE: RetryError is raised.
RECURSIVE get_embedding_from(_, _, _)
get_embedding_from(text, calls, attempt) ==
    IF calls[attempt]
    THEN [ok |-> TRUE, embedding |-> TextEmbedding(text), attempts |-> attempt]
    ELSE IF attempt >= RETRY_ATTEMPTS
    THEN [ok |-> FALSE, embedding |-> <<>>, attempts |-> attempt]
    ELSE get_embedding_from(text, calls, attempt + 1)
get_embedding(text, calls) == get_embedding_from(text, calls, 1)

\* the embeddings get_embeddings adds for a batch, the provider's call
\* answering or not
BatchEmbeddings(batch, answers) ==
    LET sorted_embeddings == SortedByIndex(ProviderBatch(batch)) IN
    IF answers THEN [k \in DOMAIN batch |-> sorted_embeddings[k].embedding]
    ELSE [k \in DOMAIN batch |-> ZeroVector]

\* the loop of EmbeddingService.get_embeddings from the text at `start` on,
\* the batch being the call-th call of the provider:
\* [embeddings, healthy, failed, attempts]
RECURSIVE get_embeddings_from(_, _, _, _, _)
get_embeddings_from(texts, calls, start, call, acc) ==
    IF start > Len(texts) THEN acc
    ELSE LET end == IF start + BATCH_SIZE - 1 < Len(texts)
                    THEN start + BATCH_SIZE - 1 ELSE Len(texts)
         IN get_embeddings_from(texts, calls, end + 1, call + 1,
               [embeddings |->
                   acc.embeddings
                   \o BatchEmbeddings(SubSeq(texts, start, end), calls[call]),
                healthy |-> calls[call],
                failed |-> acc.failed \/ ~calls[call],
                attempts |-> 1])

VARIABLES
    now,               \* the clock read by datetime.now() and by Redis expiry
    redisHash,         \* Redis hashes: memory id -> field map
    redisExpire,       \* Redis expiry: memory id -> time the key expires at
    userIndex,         \* Redis sets user:{userId}:memories
    sessionContext,    \* Redis strings session:{id}:context (JSON text)
    sessionExpire,     \* expiry of session:{id}:context
    sessionMetadata,   \* Redis hashes session:{id}:metadata
    memory_collection, \* ChromaDB collection customer_memory, a list of entries
    background_tasks,  \* background tasks added and not yet run
    creates,           \* number of create_memory requests served
    inflight,          \* the get_memories request being served, between two
                       \*   of its Redis commands
    resp,              \* the last handler's request and response
    lastStore,         \* history: <<userId, type, key>> -> the last item
                       \*   create_memory accepted for that identity
    lastWrite,         \* history: memory id -> the last item written to a
                       \*   store under that id, and when
    lastContext,       \* history: session id -> the context of the last
                       \*   update_session_context that went through, and when
    vs_collection,     \* VectorStore.memory_collection, a list of entries
    vs_healthy,        \* VectorStore.healthy
    uuids,             \* number of uuid4 ids drawn so far
    es_healthy         \* EmbeddingService.healthy

vars == <<now, redisHash, redisExpire, userIndex, sessionContext, sessionExpire,
          sessionMetadata, memory_collection, background_tasks, creates, inflight, resp,
          lastStore, lastWrite, lastContext, vs_collection, vs_healthy, uuids,
          es_healthy>>

storeVars == <<redisHash, redisExpire, userIndex, memory_collection,
               background_tasks>>
sessionVars == <<sessionContext, sessionExpire, sessionMetadata>>
historyVars == <<lastStore, lastWrite, lastContext>>
managerVars == <<vs_collection, vs_healthy, uuids, es_healthy>>

EmptyMap == [x \in {} |-> 0]
NoResp == [op |-> "none"]
\* no get_memories request is being served
NoGet == [pc |-> "idle"]

\* redis_client.hset(key, mapping=m): fields of m overwrite, the rest stay
HSet(hashes, key, m) ==
    IF key \in DOMAIN hashes
    THEN [hashes EXCEPT ![key] = m @@ @]
    ELSE (key :> m) @@ hashes

\* redis_client.expire(key, secs), for secs > 0
ExpireAt(expire, key, secs) == (key :> (now + secs)) @@ expire

Without(f, keys) == [x \in DOMAIN f \ keys |-> f[x]]

\* variant of StoreShortTermHash: the metadata is never written
StoreShortTermHashNoMetadata(item) ==
    [id |-> MemoryId(item.userId, item.type, item.key),
     userId |-> item.userId,
     type |-> item.type,
     key |-> item.key,
     value |-> Dumps(item.value),
     metadata |-> Dumps(EmptyDict),
     created_at |-> now,
     last_accessed |-> now]

\* the hash store_short_term_memory writes
StoreShortTermHash(item) ==
    [id |-> MemoryId(item.userId, item.type, item.key),
     userId |-> item.userId,
     type |-> item.type,
     key |-> item.key,
     value |-> Dumps(item.value),
     metadata |-> IF Truthy(item.metadata) THEN Dumps(item.metadata)
                  ELSE Dumps(EmptyDict),
     created_at |-> now,
     last_accessed |-> now]

store_short_term_memory(item) ==
    LET memory_id == MemoryId(item.userId, item.type, item.key)
        written == HSet(redisHash, memory_id, StoreShortTermHash(item))
    IN
    \* EXPIRE with a non-positive timeout deletes the key at once
    /\ redisHash' = IF TTLTruthy(item.ttl) /\ item.ttl.secs <= 0
                    THEN Without(written, {memory_id}) ELSE written
    /\ redisExpire' = IF ~TTLTruthy(item.ttl) THEN redisExpire
                      ELSE IF item.ttl.secs <= 0
                      THEN Without(redisExpire, {memory_id})
                      ELSE ExpireAt(redisExpire, memory_id, item.ttl.secs)
    /\ userIndex' = [userIndex EXCEPT ![item.userId] = @ \cup {memory_id}]
    /\ UNCHANGED <<memory_collection, background_tasks>>

\* variant of store_long_term_memory: the entry is written before the
\* handler returns, and no task is left behind
store_long_term_memory_inline(item) ==
    /\ memory_collection' =
          Append(memory_collection,
                 [id |-> MemoryId(item.userId, item.type, item.key),
                  embedding |-> ZeroVector,
                  metadata |-> Dict(<< <<"userId", Str(item.userId)>> >>),
                  document |-> Dumps(item.value)])
    /\ UNCHANGED <<redisHash, redisExpire, userIndex, background_tasks>>

\* store_long_term_memory: the write is handed to a background task
store_long_term_memory(item) ==
    /\ background_tasks' = background_tasks \cup
          {[memory_id |-> MemoryId(item.userId, item.type, item.key),
            user_id |-> item.userId,
            text |-> Dumps(item.value),
            metadata |-> IF Truthy(item.metadata) THEN item.metadata
                         ELSE EmptyDict,
            seq |-> creates + 1, item |-> item]}
    /\ UNCHANGED <<redisHash, redisExpire, userIndex, memory_collection>>


\* memory_collection.upsert(ids=[id], ...): replace the entry with this id,
\* append it when there is none
Upsert(collection, entry) ==
    IF \E i \in DOMAIN collection : collection[i].id = entry.id
    THEN [i \in DOMAIN collection |->
             IF collection[i].id = entry.id THEN entry ELSE collection[i]]
    ELSE Append(collection, entry)

\* store_memory_embedding, the body of the background task
MemoryEmbeddingEntry(task, outcome) ==
    [id |-> task.memory_id,
     embedding |-> generate_embedding(outcome),
     metadata |-> DictUpdate(
         Dict(<< <<"userId", Str(task.user_id)>>, <<"created_at", Num(now)>> >>),
         task.metadata),
     document |-> task.text]

\* ---------------------------------------------------------------- handlers
HTTP_OK == 200
HTTP_BAD_REQUEST == 400
HTTP_SERVER_ERROR == 500

\* variant of create_memory: a type that is not long_term is stored as a
\* short-term item
create_memory_any_type(item, redisFails) ==
    /\ creates < MaxCreates
    /\ creates' = creates + 1
    /\ UNCHANGED <<now, sessionVars, managerVars, inflight, lastContext>>
    /\ IF item.type # "long_term" /\ ~redisFails
       THEN /\ store_short_term_memory(item)
            /\ lastStore' = (<<item.userId, item.type, item.key>> :> item) @@ lastStore
            /\ lastWrite' = (MemoryId(item.userId, item.type, item.key)
                                :> [item |-> item, at |-> now]) @@ lastWrite
            /\ resp' = [op |-> "create_memory", req |-> item, at |-> now,
                        status |-> HTTP_OK,
                        id |-> MemoryId(item.userId, item.type, item.key)]
       ELSE IF item.type = "long_term"
       THEN /\ store_long_term_memory(item)
            /\ lastStore' = (<<item.userId, item.type, item.key>> :> item) @@ lastStore
            /\ UNCHANGED lastWrite
            /\ resp' = [op |-> "create_memory", req |-> item, at |-> now,
                        status |-> HTTP_OK,
                        id |-> MemoryId(item.userId, item.type, item.key)]
       ELSE /\ UNCHANGED <<storeVars, historyVars>>
            /\ resp' = [op |-> "create_memory", req |-> item, at |-> now,
                        status |-> HTTP_SERVER_ERROR, id |-> NoStr]

\* POST /memories.  redisFails: the Redis client raises on its first call.
create_memory(item, redisFails) ==
    /\ creates < MaxCreates
    /\ creates' = creates + 1
    /\ UNCHANGED <<now, sessionVars, managerVars, inflight, lastContext>>
    /\ IF item.type = "short_term" /\ ~redisFails
       THEN /\ store_short_term_memory(item)
            /\ lastStore' = (<<item.userId, item.type, item.key>> :> item) @@ lastStore
            /\ lastWrite' = (MemoryId(item.userId, item.type, item.key)
                                :> [item |-> item, at |-> now]) @@ lastWrite
            /\ resp' = [op |-> "create_memory", req |-> item, at |-> now,
                        status |-> HTTP_OK,
                        id |-> MemoryId(item.userId, item.type, item.key)]
       ELSE IF item.type = "long_term"
       THEN /\ store_long_term_memory(item)
            /\ lastStore' = (<<item.userId, item.type, item.key>> :> item) @@ lastStore
            /\ UNCHANGED lastWrite
            /\ resp' = [op |-> "create_memory", req |-> item, at |-> now,
                        status |-> HTTP_OK,
                        id |-> MemoryId(item.userId, item.type, item.key)]
       ELSE \* a Redis error, or the HTTPException(400) raised in the try
            \* block: `except Exception` turns both into a 500
            /\ UNCHANGED <<storeVars, historyVars>>
            /\ resp' = [op |-> "create_memory", req |-> item, at |-> now,
                        status |-> HTTP_SERVER_ERROR, id |-> NoStr]

\* A background task runs: store_memory_embedding.  chromaFails: upsert
\* raises, which the task logs and swallows.
RunBackgroundTask(task, outcome, chromaFails) ==
    /\ task \in background_tasks
    /\ background_tasks' = background_tasks \ {task}
    /\ memory_collection' =
          IF chromaFails THEN memory_collection
          ELSE Upsert(memory_collection, MemoryEmbeddingEntry(task, outcome))
    /\ lastWrite' = IF chromaFails THEN lastWrite
                    ELSE (task.memory_id :> [item |-> task.item, at |-> now])
                             @@ lastWrite
    /\ resp' = [op |-> "store_memory_embedding", req |-> task, at |-> now,
                stored |-> ~chromaFails]
    /\ UNCHANGED <<now, redisHash, redisExpire, userIndex, sessionVars, creates, inflight,
                   lastStore, lastContext, managerVars>>

\* redis_client.smembers(f"user:{user_id}:memories")
SMembers(user_id) ==
    IF user_id \in DOMAIN userIndex THEN userIndex[user_id] ELSE {}

\* the ids get_memories keeps after its type and key filters
FilteredIds(user_id, type, key) ==
    {mid \in SMembers(user_id) :
        /\ (type # "" => ContainsType(mid, type))
        /\ (StrGiven(key) => EndsWithKey(mid, key))}

Orders(S) == {o \in [1..Cardinality(S) -> S] : \A x \in S : \E i \in DOMAIN o : o[i] = x}

\* the record get_memories builds from a hash it read
ParsedHash(h) ==
    LET h1 == IF "value" \in DOMAIN h
              THEN [h EXCEPT !["value"] = Loads(h.value).val] ELSE h
    IN IF "metadata" \in DOMAIN h1
       THEN [h1 EXCEPT !["metadata"] = Loads(h1.metadata).val] ELSE h1

HashParses(h) ==
    /\ ("value" \in DOMAIN h => Loads(h.value).ok)
    /\ ("metadata" \in DOMAIN h => Loads(h.metadata).ok)

\* memory_collection.query(query_texts=[""], where={"userId": user_id})
QueryByUser(user_id) ==
    SelectSeq(memory_collection,
              LAMBDA e : DictGet(e.metadata, "userId", None) = Str(user_id))

\* What memory_collection.query returns: under each of ids, documents and
\* metadatas one list per query text, here the one list of the query "".
QueryResults(user_id) ==
    LET found == QueryByUser(user_id) IN
    [ids |-> << List([i \in DOMAIN found |-> Str(found[i].id)]) >>,
     documents |-> << List([i \in DOMAIN found |-> RawText(found[i].document)]) >>,
     metadatas |-> << List([i \in DOMAIN found |-> found[i].metadata]) >>]

\* memory_id.split(":") and metadata.get(...) raise AttributeError on a
\* list: the record can be built from a str id and a dict only
LongTermRecordRaises(memory_id, metadata) ==
    memory_id.t # "str" \/ metadata.t # "dict"

\* the record get_memories rebuilds in its loop over the documents;
\* json.loads of anything but a JSON text raises and gives {"content": doc}
LongTermRecord(user_id, memory_id, doc, metadata) ==
    [id |-> memory_id.v,
     userId |-> user_id,
     type |-> "long_term",
     key |-> LastSegment(memory_id.v),
     value |-> IF doc.t = "text" /\ Loads(doc.v).ok THEN Loads(doc.v).val
               ELSE Dict(<< <<"content", doc>> >>),
     metadata |-> metadata,
     created_at |-> DictGet(metadata, "created_at", Num(now)).v,
     last_accessed |-> now]

\* GET /memories/{user_id}: [status, memories, hashes, ...] where hashes is
\* the Redis hash map after the reads have refreshed last_accessed, lookedUp
\* tells that the short-term lookup went through, found how many items it
\* gave, and queried that the long-term store was queried.
\*   order  the order in which the ids of the index set are visited
\*   fault  "redis": smembers raises; "chroma": the long-term query raises
\* Once the query has answered, the loop takes the list of all ids for one
\* id and raises on it: the tiered fallback ends in a 500 either way.
get_memories(user_id, type, key, order, fault) ==
    LET present == SelectSeq(order, LAMBDA mid : mid \in DOMAIN redisHash)
        bad == {i \in DOMAIN present : ~HashParses(redisHash[present[i]])}
        upto == IF bad = {} THEN Len(present)
                ELSE (CHOOSE i \in bad : \A j \in bad : i <= j) - 1
        touched == {present[i] : i \in 1..upto}
        hashes == [mid \in DOMAIN redisHash |->
                      IF mid \in touched
                      THEN [last_accessed |-> now] @@ redisHash[mid]
                      ELSE redisHash[mid]]
        memories == [i \in 1..upto |-> ParsedHash(redisHash[present[i]])]
        fallback == type = "long_term" /\ memories = <<>>
        results == QueryResults(user_id)
        raises == \E i \in DOMAIN results.documents :
                      LongTermRecordRaises(results.ids[i], results.metadatas[i])
    IN IF fault = "redis"
       THEN [status |-> HTTP_SERVER_ERROR, memories |-> <<>>,
             hashes |-> redisHash, reads |-> 1,
             lookedUp |-> FALSE, found |-> 0, queried |-> FALSE]
       ELSE IF bad # {}
       THEN [status |-> HTTP_SERVER_ERROR, memories |-> <<>>,
             hashes |-> hashes, reads |-> 1 + Len(present),
             lookedUp |-> FALSE, found |-> 0, queried |-> FALSE]
       ELSE IF fallback /\ fault = "chroma"
       THEN [status |-> HTTP_SERVER_ERROR, memories |-> <<>>,
             hashes |-> hashes, reads |-> 2 + Len(present),
             lookedUp |-> TRUE, found |-> 0, queried |-> TRUE]
       ELSE IF fallback /\ raises
       THEN [status |-> HTTP_SERVER_ERROR, memories |-> <<>>,
             hashes |-> hashes, reads |-> 2 + Len(present),
             lookedUp |-> TRUE, found |-> 0, queried |-> TRUE]
       ELSE IF fallback
       THEN [status |-> HTTP_OK,
             memories |-> [i \in DOMAIN results.documents |->
                              LongTermRecord(user_id, results.ids[i],
                                             results.documents[i],
                                             results.metadatas[i])],
             hashes |-> hashes, reads |-> 2 + Len(present),
             lookedUp |-> TRUE, found |-> 0, queried |-> TRUE]
       ELSE [status |-> HTTP_OK, memories |-> memories,
             hashes |-> hashes, reads |-> 1 + Len(order),
             lookedUp |-> TRUE, found |-> Len(memories), queried |-> FALSE]

GetMemories(user_id, type, key, fault) ==
    \E order \in Orders(FilteredIds(user_id, type, key)) :
        LET r == get_memories(user_id, type, key, order, fault) IN
        /\ redisHash' = r.hashes
        /\ resp' = [op |-> "get_memories", at |-> now,
                    req |-> [user_id |-> user_id, type |-> type, key |-> key],
                    status |-> r.status, memories |-> r.memories,
                    lookedUp |-> r.lookedUp, found |-> r.found,
                    queried |-> r.queried, chromaFails |-> fault = "chroma"]
        /\ UNCHANGED <<now, redisExpire, userIndex, memory_collection,
                       background_tasks, sessionVars, creates, inflight, historyVars, managerVars>>

\* get_memories, one Redis command at a time.  Redis expires keys on its own
\* clock, so an expiry can fall between any two commands of a request.
\* GetStart: smembers and the two filters; the ids are visited in some order.
GetStart(user_id, type, key) ==
    /\ inflight.pc = "idle"
    /\ \E order \in Orders(FilteredIds(user_id, type, key)) :
          inflight' = [pc |-> "read", ids |-> order, i |-> 1, memories |-> <<>>,
                       req |-> [user_id |-> user_id, type |-> type, key |-> key]]
    /\ UNCHANGED <<now, storeVars, sessionVars, creates, resp, historyVars,
                   managerVars>>

\* GetRead: redis_client.hgetall(memory_id) and the parsing of what it gave.
\* An empty answer moves on to the next id; a field that is not JSON raises.
GetRead ==
    /\ inflight.pc = "read"
    /\ inflight.i <= Len(inflight.ids)
    /\ LET memory_id == inflight.ids[inflight.i] IN
       IF memory_id \notin DOMAIN redisHash
       THEN /\ inflight' = [inflight EXCEPT !.i = @ + 1]
            /\ UNCHANGED resp
       ELSE IF ~HashParses(redisHash[memory_id])
       THEN /\ inflight' = NoGet
            /\ resp' = [op |-> "get_memories", at |-> now, req |-> inflight.req,
                        status |-> HTTP_SERVER_ERROR, memories |-> <<>>,
                        lookedUp |-> FALSE, found |-> 0, queried |-> FALSE,
                        chromaFails |-> FALSE]
       ELSE /\ inflight' = [pc |-> "touch", ids |-> inflight.ids,
                            i |-> inflight.i, memories |-> inflight.memories,
                            req |-> inflight.req,
                            memory_data |-> ParsedHash(redisHash[memory_id])]
            /\ UNCHANGED resp
    /\ UNCHANGED <<now, storeVars, sessionVars, creates, historyVars,
                   managerVars>>

\* GetTouch: redis_client.hset(memory_id, "last_accessed", now) and the
\* append.  HSET creates the key when it is not there, with no expiry.
GetTouch ==
    /\ inflight.pc = "touch"
    /\ redisHash' = HSet(redisHash, inflight.ids[inflight.i],
                         [last_accessed |-> now])
    /\ inflight' = [pc |-> "read", ids |-> inflight.ids, i |-> inflight.i + 1,
                    memories |-> Append(inflight.memories, inflight.memory_data),
                    req |-> inflight.req]
    /\ UNCHANGED <<now, redisExpire, userIndex, memory_collection,
                   background_tasks, sessionVars, creates, resp, historyVars,
                   managerVars>>

\* GetFinish: the loop is over; the long-term fallback and the response.
GetFinish ==
    /\ inflight.pc = "read"
    /\ inflight.i > Len(inflight.ids)
    /\ LET req == inflight.req
           memories == inflight.memories
           fallback == req.type = "long_term" /\ memories = <<>>
           results == QueryResults(req.user_id)
           raises == \E i \in DOMAIN results.documents :
                         LongTermRecordRaises(results.ids[i], results.metadatas[i])
       IN resp' = [op |-> "get_memories", at |-> now, req |-> req,
                   status |-> IF fallback /\ raises THEN HTTP_SERVER_ERROR
                              ELSE HTTP_OK,
                   memories |->
                       IF fallback /\ raises THEN <<>>
                       ELSE IF fallback
                       THEN [i \in DOMAIN results.documents |->
                                LongTermRecord(req.user_id, results.ids[i],
                                               results.documents[i],
                                               results.metadatas[i])]
                       ELSE memories,
                   lookedUp |-> TRUE, found |-> Len(memories),
                   queried |-> fallback, chromaFails |-> FALSE]
    /\ inflight' = NoGet
    /\ UNCHANGED <<now, storeVars, sessionVars, creates, historyVars,
                   managerVars>>

\* The clock advances one second; Redis drops the keys whose expiry is due.
Tick ==
    /\ now < MaxTime
    /\ now' = now + 1
    /\ LET due == {mid \in DOMAIN redisExpire : redisExpire[mid] <= now + 1}
           sdue == {sid \in DOMAIN sessionExpire : sessionExpire[sid] <= now + 1}
       IN /\ redisHash' = Without(redisHash, due)
          /\ redisExpire' = Without(redisExpire, due)
          /\ sessionContext' = Without(sessionContext, sdue)
          /\ sessionExpire' = Without(sessionExpire, sdue)
    /\ UNCHANGED <<userIndex, sessionMetadata, memory_collection,
                   background_tasks, creates, inflight, resp, historyVars, managerVars>>

\* GET /context/{session_id}: [status, context, metadata] where metadata is
\* the session:{id}:metadata map after the call.  fails: Redis raises.
get_session_context(session_id, fails) ==
    IF fails
    THEN [status |-> HTTP_SERVER_ERROR, sessionId |-> session_id,
          context |-> EmptyDict, metadata |-> sessionMetadata]
    ELSE IF session_id \notin DOMAIN sessionContext
    THEN [status |-> HTTP_OK, sessionId |-> session_id,
          context |-> EmptyDict, metadata |-> sessionMetadata]
    ELSE IF ~Loads(sessionContext[session_id]).ok
    THEN [status |-> HTTP_SERVER_ERROR, sessionId |-> session_id,
          context |-> EmptyDict, metadata |-> sessionMetadata]
    ELSE [status |-> HTTP_OK, sessionId |-> session_id,
          context |-> Loads(sessionContext[session_id]).val,
          metadata |-> HSet(sessionMetadata, session_id, [last_accessed |-> now])]

GetSessionContext(session_id, fails) ==
    LET r == get_session_context(session_id, fails) IN
    /\ sessionMetadata' = r.metadata
    /\ resp' = [op |-> "get_session_context", at |-> now,
                req |-> [session_id |-> session_id],
                status |-> r.status, context |-> r.context]
    /\ UNCHANGED <<now, storeVars, sessionContext, sessionExpire, creates, inflight,
                   historyVars, managerVars>>

\* variant of update_session_context: the keys of the new context are laid
\* over the context that is stored
update_session_context_merging(session_id, context, fails) ==
    /\ UNCHANGED <<now, storeVars, creates, inflight, lastStore, lastWrite,
                   managerVars>>
    /\ IF fails
       THEN /\ UNCHANGED <<sessionVars, lastContext>>
            /\ resp' = [op |-> "update_session_context", at |-> now,
                        req |-> [session_id |-> session_id, context |-> context],
                        status |-> HTTP_SERVER_ERROR]
       ELSE /\ sessionContext' =
                  (session_id :>
                      Dumps(IF session_id \in DOMAIN sessionContext
                            THEN DictUpdate(Loads(sessionContext[session_id]).val,
                                            context)
                            ELSE context))
                      @@ sessionContext
            /\ sessionMetadata' = HSet(sessionMetadata, session_id,
                                       [last_updated |-> now, last_accessed |-> now])
            /\ sessionExpire' = (session_id :> (now + SESSION_CONTEXT_TTL))
                                    @@ sessionExpire
            /\ lastContext' = (session_id :>
                                  [context |-> context, at |-> now,
                                   again |-> session_id \in DOMAIN lastContext])
                                  @@ lastContext
            /\ resp' = [op |-> "update_session_context", at |-> now,
                        req |-> [session_id |-> session_id, context |-> context],
                        status |-> HTTP_OK]

\* POST /context/{session_id}.  fails: Redis raises on the first call.
update_session_context(session_id, context, fails) ==
    /\ UNCHANGED <<now, storeVars, creates, inflight, lastStore, lastWrite,
                   managerVars>>
    /\ IF fails
       THEN /\ UNCHANGED <<sessionVars, lastContext>>
            /\ resp' = [op |-> "update_session_context", at |-> now,
                        req |-> [session_id |-> session_id, context |-> context],
                        status |-> HTTP_SERVER_ERROR]
       ELSE /\ sessionContext' = (session_id :> Dumps(context)) @@ sessionContext
            /\ sessionMetadata' = HSet(sessionMetadata, session_id,
                                       [last_updated |-> now, last_accessed |-> now])
            /\ sessionExpire' = (session_id :> (now + SESSION_CONTEXT_TTL))
                                    @@ sessionExpire
            /\ lastContext' = (session_id :>
                                  [context |-> context, at |-> now,
                                   again |-> session_id \in DOMAIN lastContext])
                                  @@ lastContext
            /\ resp' = [op |-> "update_session_context", at |-> now,
                        req |-> [session_id |-> session_id, context |-> context],
                        status |-> HTTP_OK]

\* ------------------------------------------------------ relevance ranking
RECURSIVE DotFrom(_, _, _)
DotFrom(a, b, i) ==
    IF i > Len(a) \/ i > Len(b) THEN 0 ELSE a[i] * b[i] + DotFrom(a, b, i + 1)
\* sum(x * y for x, y in zip(a, b))
Dot(a, b) == DotFrom(a, b, 1)

\* A score num / sqrt(den), den > 0, held exactly.
Score(num, den) == [num |-> num, den |-> den]
ScoreZero == Score(0, 1)
Abs(x) == IF x < 0 THEN -x ELSE x
\* a < b :  a.num|a.num| / a.den < b.num|b.num| / b.den
ScoreLess(a, b) == a.num * Abs(a.num) * b.den < b.num * Abs(b.num) * a.den
ScoreEq(a, b) == ~ScoreLess(a, b) /\ ~ScoreLess(b, a)

\* variant of CosineSimilarity: the magnitudes are left squared
CosineWithoutRoots(q, m) ==
    IF Dot(q, q) * Dot(m, m) > 0
    THEN Score(Dot(q, m), (Dot(q, q) * Dot(m, m)) * (Dot(q, q) * Dot(m, m)))
    ELSE ScoreZero

\* dot / (|q| * |m|) if |q| * |m| > 0 else 0
CosineSimilarity(q, m) ==
    IF Dot(q, q) * Dot(m, m) > 0
    THEN Score(Dot(q, m), Dot(q, q) * Dot(m, m))
    ELSE ScoreZero

\* ------------------------------------------- binary64 arithmetic (float)
\* Python's float is IEEE 754 binary64: 53 significant bits, every result
\* rounded to the nearest float, ties to the even one.  Naturals beyond the
\* range of TLC's integers are sequences of 13-bit limbs, low limb first,
\* with no zero limb on top.
MANT_BITS == 53
Limb == 2 ^ 13

RECURSIVE BigOfInt(_)
BigOfInt(n) == IF n = 0 THEN <<>> ELSE <<n % Limb>> \o BigOfInt(n \div Limb)

RECURSIVE BigNorm(_)
BigNorm(a) ==
    IF a = <<>> \/ a[Len(a)] # 0 THEN a ELSE BigNorm(SubSeq(a, 1, Len(a) - 1))

BigLimb(a, i) == IF i \in DOMAIN a THEN a[i] ELSE 0

RECURSIVE BigAddFrom(_, _, _, _)
BigAddFrom(a, b, i, carry) ==
    IF i > Len(a) /\ i > Len(b)
    THEN IF carry = 0 THEN <<>> ELSE <<carry>>
    ELSE LET s == BigLimb(a, i) + BigLimb(b, i) + carry
         IN <<s % Limb>> \o BigAddFrom(a, b, i + 1, s \div Limb)
BigAdd(a, b) == BigAddFrom(a, b, 1, 0)

\* the sum of a[i] * b[k + 1 - i] over the i from i on
RECURSIVE BigColumn(_, _, _, _)
BigColumn(a, b, k, i) ==
    IF i > Len(a) THEN 0
    ELSE BigLimb(a, i) * BigLimb(b, k + 1 - i) + BigColumn(a, b, k, i + 1)

RECURSIVE BigMulFrom(_, _, _, _)
BigMulFrom(a, b, k, carry) ==
    IF k > Len(a) + Len(b) THEN <<>>
    ELSE LET s == BigColumn(a, b, k, 1) + carry
         IN <<s % Limb>> \o BigMulFrom(a, b, k + 1, s \div Limb)
BigMul(a, b) == BigNorm(BigMulFrom(a, b, 1, 0))

\* a <= b, decided at the highest limb where they differ
BigLeq(a, b) ==
    \/ Len(a) < Len(b)
    \/ /\ Len(a) = Len(b)
       /\ \/ a = b
          \/ LET top == CHOOSE i \in DOMAIN a :
                            a[i] # b[i] /\ \A j \in DOMAIN a : j > i => a[j] = b[j]
             IN a[top] < b[top]

BigPow2(k) == [i \in 1..(k \div 13 + 1) |-> IF i = k \div 13 + 1 THEN 2 ^ (k % 13) ELSE 0]
BigBit(a, k) == (BigLimb(a, k \div 13 + 1) \div (2 ^ (k % 13))) % 2
\* the number of bits of a: 0 for 0
BigBitLen(a) ==
    IF a = <<>> THEN 0
    ELSE 13 * (Len(a) - 1)
           + (CHOOSE n \in 1..13 : 2 ^ (n - 1) <= a[Len(a)] /\ a[Len(a)] < 2 ^ n)

\* the limb of a \div 2^k that starts at bit k + 13 * (i - 1) of a
RECURSIVE BigShrLimb(_, _, _)
BigShrLimb(a, from, b) ==
    IF b = 13 THEN 0 ELSE BigBit(a, from + b) * 2 ^ b + BigShrLimb(a, from, b + 1)
BigShr(a, k) == BigNorm([i \in DOMAIN a |-> BigShrLimb(a, k + 13 * (i - 1), 0)])
BigShl(a, k) == BigMul(a, BigPow2(k))
\* the bits of a below bit k are all zero
BigLowZero(a, k) == \A j \in 0..(k - 1) : BigBit(a, j) = 0

\* the greatest s with s * s <= t that has its bits above k from s
RECURSIVE BigRootFrom(_, _, _)
BigRootFrom(t, s, k) ==
    IF k < 0 THEN s
    ELSE LET c == BigAdd(s, BigPow2(k))
         IN IF BigLeq(BigMul(c, c), t) THEN BigRootFrom(t, c, k - 1)
            ELSE BigRootFrom(t, s, k - 1)

\* the greatest q with q * d <= t that has its bits above k from q
RECURSIVE BigQuotFrom(_, _, _, _)
BigQuotFrom(t, d, q, k) ==
    IF k < 0 THEN q
    ELSE LET c == BigAdd(q, BigPow2(k))
         IN IF BigLeq(BigMul(c, d), t) THEN BigQuotFrom(t, d, c, k - 1)
            ELSE BigQuotFrom(t, d, q, k - 1)

\* A float: sign, significand m of exactly MANT_BITS bits, exponent e, for
\* the value (-1)^neg * m * 2^e; or zero; or the ZeroDivisionError that a
\* division by zero raises.  The exponent range is left out: no value met
\* here comes near its ends.
FloatZero == [neg |-> FALSE, m |-> <<>>, e |-> 0]
ZeroDivisionError == [raised |-> "ZeroDivisionError"]

\* the float nearest to x * 2^e, ties to even; inexact: x * 2^e is a lower
\* bound of the value rounded, which is not x * 2^e itself
FloatRound(neg, x, e, inexact) ==
    LET n == BigBitLen(x)
        sh == n - MANT_BITS
        q == BigShr(x, sh)
        half == BigBit(x, sh - 1) = 1
        rest == inexact \/ ~BigLowZero(x, sh - 1)
        up == half /\ (rest \/ BigBit(q, 0) = 1)
        r == IF up THEN BigAdd(q, BigOfInt(1)) ELSE q
    IN IF n = 0 THEN FloatZero
       ELSE IF n <= MANT_BITS
       THEN [neg |-> neg, m |-> BigShl(x, MANT_BITS - n), e |-> e - (MANT_BITS - n)]
       ELSE IF BigBitLen(r) > MANT_BITS
       THEN [neg |-> neg, m |-> BigShr(r, 1), e |-> e + sh + 1]
       ELSE [neg |-> neg, m |-> r, e |-> e + sh]

\* float(n) for an integer n of TLC's range
FloatOfInt(n) == FloatRound(n < 0, BigOfInt(IF n < 0 THEN -n ELSE n), 0, FALSE)

\* x * y
FloatMul(x, y) ==
    FloatRound(x.neg # y.neg, BigMul(x.m, y.m), x.e + y.e, FALSE)

\* x ** 0.5 for x >= 0: the root of m * 2^e, e made even, carried to 55 bits
FloatSqrt(x) ==
    LET odd == x.e % 2 = 1
        t == BigShl(x.m, IF odd THEN 57 ELSE 56)
        e == IF odd THEN x.e - 1 ELSE x.e
        s == BigRootFrom(t, <<>>, 55)
    IN IF x.m = <<>> THEN FloatZero
       ELSE FloatRound(FALSE, s, e \div 2 - 28, BigMul(s, s) # t)

\* x / y: the quotient of the significands carried to 56 bits at least
FloatDiv(x, y) ==
    LET t == BigShl(x.m, 56)
        q == BigQuotFrom(t, y.m, <<>>, 57)
    IN IF y.m = <<>> THEN ZeroDivisionError
       ELSE FloatRound(x.neg # y.neg, q, x.e - 56 - y.e, BigMul(q, y.m) # t)

\* x > 0
FloatPositive(x) == x.m # <<>> /\ ~x.neg

\* variant of SimilarityFloat: the quotient is taken whatever the magnitudes
SimilarityUnguarded(query_embedding, memory_embedding) ==
    LET dot_product == FloatOfInt(Dot(query_embedding, memory_embedding))
        magnitude1 == FloatSqrt(FloatOfInt(Dot(query_embedding, query_embedding)))
        magnitude2 == FloatSqrt(FloatOfInt(Dot(memory_embedding, memory_embedding)))
    IN FloatDiv(dot_product, FloatMul(magnitude1, magnitude2))

\* the similarity optimize_context computes, in floats: with components that
\* are small integers the three sums of products are exact, the root, the
\* product of the magnitudes and the quotient are rounded
SimilarityFloat(query_embedding, memory_embedding) ==
    LET dot_product == FloatOfInt(Dot(query_embedding, memory_embedding))
        magnitude1 == FloatSqrt(FloatOfInt(Dot(query_embedding, query_embedding)))
        magnitude2 == FloatSqrt(FloatOfInt(Dot(memory_embedding, memory_embedding)))
    IN IF FloatPositive(FloatMul(magnitude1, magnitude2))
       THEN FloatDiv(dot_product, FloatMul(magnitude1, magnitude2))
       ELSE FloatZero

\* |x - 1| <= 2^-51
FloatNearOne(x) ==
    /\ x # ZeroDivisionError
    /\ FloatPositive(x)
    /\ \/ x.e = -MANT_BITS /\ BigLeq(BigPow2(MANT_BITS), BigAdd(x.m, BigOfInt(4)))
       \/ x.e = 1 - MANT_BITS
             /\ BigLeq(x.m, BigAdd(BigPow2(MANT_BITS - 1), BigOfInt(2)))

\* score > 0.7
AboveThreshold(s) == s.num > 0 /\ 100 * s.num * s.num > 49 * s.den

\* round(score, 2), in hundredths: the r with r - 0.5 <= 100 * score < r + 0.5,
\* found by bisection of lo..hi
RECURSIVE Round2In(_, _, _)
Round2In(s, lo, hi) ==
    IF lo = hi THEN lo
    ELSE LET mid == (lo + hi) \div 2
         IN IF ScoreLess(s, Score(2 * mid + 1, 40000))
            THEN Round2In(s, lo, mid)
            ELSE Round2In(s, mid + 1, hi)
Round2(s) == Round2In(s, -100, 100)

\* variant of InsertDesc: a pair goes in front of the pairs of equal score
RECURSIVE InsertDescUnstable(_, _)
InsertDescUnstable(sorted, x) ==
    IF sorted = <<>> THEN <<x>>
    ELSE IF ~ScoreLess(x.score, sorted[1].score)
         THEN <<x>> \o sorted
         ELSE <<sorted[1]>> \o InsertDescUnstable(Tail(sorted), x)

\* sorted(pairs, key=score, reverse=True): stable, so of two pairs with the
\* same score the one that came first stays first
RECURSIVE InsertDesc(_, _)
InsertDesc(sorted, x) ==
    IF sorted = <<>> THEN <<x>>
    ELSE IF ScoreLess(sorted[1].score, x.score)
         THEN <<x>> \o sorted
         ELSE <<sorted[1]>> \o InsertDesc(Tail(sorted), x)
RECURSIVE SortedDescFrom(_, _, _)
SortedDescFrom(pairs, i, acc) ==
    IF i > Len(pairs) THEN acc
    ELSE SortedDescFrom(pairs, i + 1, InsertDesc(acc, pairs[i]))
SortedDesc(pairs) == SortedDescFrom(pairs, 1, <<>>)

\* seq[:n]
Take(seq, n) == SubSeq(seq, 1, IF n < Len(seq) THEN n ELSE Len(seq))
\* seq[-n:]
LastN(seq, n) == SubSeq(seq, IF n < Len(seq) THEN Len(seq) - n + 1 ELSE 1, Len(seq))

\* the scored candidates of optimize_context, in the order of `memories`
ScoredMemories(memories, query_embedding, memory_embeddings) ==
    [i \in DOMAIN memories |->
        [memory |-> memories[i], pos |-> i,
         embedding |-> memory_embeddings[i],
         score |-> CosineSimilarity(query_embedding, memory_embeddings[i])]]

\* the top memories of the sorted candidates that score above 0.7
SelectRelevant(sorted) ==
    LET top == Take(sorted, TOP_K)
        kept == SelectSeq(top, LAMBDA c : AboveThreshold(c.score))
    IN \* pos, the candidate's place in `memories`, is kept beside the
       \* code's two fields so that the ranking can be stated
       [i \in DOMAIN kept |->
           [content |-> kept[i].memory.value,
            relevance |-> Round2(kept[i].score),
            pos |-> kept[i].pos]]

\* variant of OptimizedHistory: only the most recent turns are kept
OptimizedHistoryRecent(conversation_history) ==
    LastN(conversation_history, HISTORY_LIMIT)

\* conversation_history[:2] + conversation_history[-8:] when longer than 10
OptimizedHistory(conversation_history) ==
    IF Len(conversation_history) > HISTORY_LIMIT
    THEN Take(conversation_history, KEEP_FIRST)
             \o LastN(conversation_history, KEEP_LAST)
    ELSE conversation_history

\* variant of SessionContextOrEmpty: the whole response is taken for the
\* context
SessionContextWholeResponse(c) ==
    IF c.status = HTTP_OK
    THEN Dict(<< <<"sessionId", Str(c.sessionId)>>, <<"context", c.context>> >>)
    ELSE EmptyDict

\* try: context_response.get("context", {})  except: pass
SessionContextOrEmpty(c) ==
    IF c.status = HTTP_OK THEN c.context ELSE EmptyDict

\* POST /optimize-context: the response and the store maps after the call.
\*   g            what get_memories(userId, "long_term") did (step 1)
\*   c            what get_session_context(sessionId) did (step 2)
\*   qOut, mOuts  what the embedding provider does for the query and for
\*                each memory text
optimize_context(req, g, c, qOut, mOuts) ==
    LET hasUser == StrGiven(req.userId)
        hasSession == StrGiven(req.sessionId)
        memories == IF hasUser THEN g.memories ELSE <<>>
        ranks == hasUser /\ memories # <<>> /\ StrGiven(req.user_query)
        \* memory["value"] raises KeyError on a record without that field
        keyError == ranks /\ \E i \in DOMAIN memories : "value" \notin DOMAIN memories[i]
        candidates ==
            IF ranks /\ ~keyError
            THEN ScoredMemories(memories, generate_embedding(qOut),
                                [i \in DOMAIN memories |-> generate_embedding(mOuts[i])])
            ELSE <<>>
        \* the HTTPException of get_memories and the KeyError are raised
        \* outside any inner try: the outer `except Exception` answers 500
        raised == hasUser /\ (g.status # HTTP_OK \/ keyError)
        session_context == IF hasSession THEN SessionContextOrEmpty(c)
                           ELSE EmptyDict
    IN [status |-> IF raised THEN HTTP_SERVER_ERROR ELSE HTTP_OK,
        conversation_history |->
            IF raised THEN <<>> ELSE OptimizedHistory(req.conversation_history),
        relevant_memories |->
            IF raised THEN <<>> ELSE SelectRelevant(SortedDesc(candidates)),
        session_context |-> IF raised THEN EmptyDict ELSE session_context,
        candidates |-> candidates,
        query_embedding |-> IF ranks /\ ~keyError THEN generate_embedding(qOut)
                            ELSE <<>>,
        hashes |-> IF hasUser THEN g.hashes ELSE redisHash,
        metadata |-> IF hasSession /\ ~raised THEN c.metadata ELSE sessionMetadata,
        memoryFetchFailed |-> hasUser /\ g.status # HTTP_OK,
        contextFetchFailed |-> hasSession /\ ~raised /\ c.status # HTTP_OK,
        storeReads |-> (IF hasUser THEN g.reads ELSE 0)
                       + (IF hasSession /\ ~raised THEN 1 ELSE 0),
        embeddingCalls |-> IF ranks /\ ~keyError THEN 1 + Len(memories) ELSE 0]

\* the handler's effect on the stores, and its response r
OptimizeContextRespond(req, r) ==
    /\ redisHash' = r.hashes
    /\ sessionMetadata' = r.metadata
    /\ resp' = [op |-> "optimize_context", at |-> now, req |-> req,
                status |-> r.status,
                conversation_history |-> r.conversation_history,
                relevant_memories |-> r.relevant_memories,
                session_context |-> r.session_context,
                candidates |-> r.candidates,
                query_embedding |-> r.query_embedding,
                memoryFetchFailed |-> r.memoryFetchFailed,
                contextFetchFailed |-> r.contextFetchFailed,
                storeReads |-> r.storeReads,
                embeddingCalls |-> r.embeddingCalls]
    /\ UNCHANGED <<now, redisExpire, userIndex, sessionContext, sessionExpire,
                   memory_collection, background_tasks, creates, inflight, historyVars, managerVars>>

OptimizeContextWith(req, g, c, qOut, mOuts) ==
    OptimizeContextRespond(req, optimize_context(req, g, c, qOut, mOuts))

\* conversation turns T0, T1, ... stand for themselves
History(n) == [i \in 1..n |-> i - 1]
OptimizeRequest(n, query, userId, sessionId) ==
    [conversation_history |-> History(n), user_query |-> query,
     userId |-> userId, sessionId |-> sessionId]

\* The handler serves the request of n turns, query, userId and sessionId.
\*   memFault   as the fault of get_memories;  ctxFails   Redis raises in
\*   get_session_context
OptimizeContext(n, query, userId, sessionId, memFault, qOut, mOuts, ctxFails) ==
    LET req == OptimizeRequest(n, query, userId, sessionId) IN
    \E order \in Orders(FilteredIds(userId, "long_term", NoStr)) :
        OptimizeContextWith(req,
            get_memories(userId, "long_term", NoStr, order, memFault),
            get_session_context(sessionId, ctxFails), qOut, mOuts)

\* ----------------------------------------- MemoryManager and VectorStore
\* VectorStore._prepare_document: the parts that "\n" joins, each a label
\* and the value formatted after it
prepare_document(memory_data) ==
    (IF "message" \in DictKeys(memory_data)
     THEN << <<"User", DictGet(memory_data, "message", None)>> >> ELSE <<>>)
    \o (IF "response" \in DictKeys(memory_data)
        THEN << <<"Assistant", DictGet(memory_data, "response", None)>> >> ELSE <<>>)
    \o (IF "context" \in DictKeys(memory_data)
           /\ DictGet(memory_data, "context", None).t = "dict"
        THEN DictGet(memory_data, "context", None).v ELSE <<>>)

\* VectorStore.store_memory: [ok, id, collection, healthy].  addFails:
\* memory_collection.add raises, which store_memory logs and raises again.
VectorStore_store_memory(user_id, memory_data, addFails) ==
    LET memory_id == [uuid |-> uuids + 1]
        entry == [id |-> memory_id,
                  document |-> prepare_document(memory_data),
                  metadata |->
                      [user_id |-> user_id,
                       session_id |-> DictGet(memory_data, "sessionId", Str(<<"">>)),
                       timestamp |-> DictGet(memory_data, "timestamp", Str(<<"">>)),
                       channel |-> DictGet(memory_data, "channel", Str(<<"">>)),
                       full_data |-> Dumps(memory_data)]]
    IN IF addFails
       THEN [ok |-> FALSE, id |-> [uuid |-> 0], collection |-> vs_collection,
             healthy |-> FALSE]
       ELSE [ok |-> TRUE, id |-> memory_id,
             collection |-> Append(vs_collection, entry), healthy |-> vs_healthy]

\* the turn store_memory records, before the aggregate is added to it
MemoryData(user_id, session_id, conversation_turn) ==
    Dict(<< <<"userId", Str(user_id)>>,
            <<"sessionId", Str(session_id)>>,
            <<"message", DictGet(conversation_turn, "message", Str(<<"">>))>>,
            <<"response", DictGet(conversation_turn, "response", Str(<<"">>))>>,
            <<"messageId", DictGet(conversation_turn, "messageId", Str(<<"">>))>>,
            <<"timestamp", DictGet(conversation_turn, "timestamp", Num(now))>>,
            <<"channel", DictGet(conversation_turn, "channel", Str(<<"unknown">>))>>,
            <<"metadata", DictGet(conversation_turn, "metadata", EmptyDict)>> >>)

\* len(memory["history"]) of an aggregate that has a history
HistoryLen(memory) == Len(DictGet(memory, "history", List(<<>>)).v)

\* variant of SummarizeNeeded: a history of exactly 20 turns counts too
SummarizeNeededFrom20(memory) ==
    /\ Truthy(memory)
    /\ "history" \in DictKeys(memory)
    /\ HistoryLen(memory) >= SUMMARIZE_OVER

\* if memory and "history" in memory and len(memory["history"]) > 20
SummarizeNeeded(memory) ==
    /\ Truthy(memory)
    /\ "history" \in DictKeys(memory)
    /\ HistoryLen(memory) > SUMMARIZE_OVER

\* a completion of the summarization model: it raises, or answers a text
SummaryError == [ok |-> FALSE, text |-> <<>>]
SummaryText(text) == [ok |-> TRUE, text |-> text]

\* variant of summarize_context: the history is cut before the provider is
\* called, so a failure of the provider leaves the cut history behind
summarize_context_cut_first(memory, outcome) ==
    LET history == DictGet(memory, "history", List(<<>>)).v
        parsed == Loads(outcome.text)
        summary == IF parsed.ok THEN parsed.val
                   ELSE Dict(<< <<"summary", RawText(outcome.text)>> >>)
        context == DictGet(memory, "context", None)
        cut == DictSet(memory, "history", List(LastN(history, SUMMARY_KEEP)))
    IN IF Len(history) < SUMMARY_MIN_TURNS
       THEN [memory |-> memory, called |-> FALSE, summarized |-> FALSE]
       ELSE IF ~outcome.ok
       THEN [memory |-> cut, called |-> TRUE, summarized |-> FALSE]
       ELSE IF context.t # "dict"
       THEN [memory |-> cut, called |-> TRUE, summarized |-> FALSE]
       ELSE [memory |->
                DictSet(cut, "context",
                        DictSet(context, "conversation_summary", summary)),
             called |-> TRUE, summarized |-> TRUE]

\* variant of summarize_context: a short history is summarized too
summarize_context_any_length(memory, outcome) ==
    LET history == DictGet(memory, "history", List(<<>>)).v
        parsed == Loads(outcome.text)
        summary == IF parsed.ok THEN parsed.val
                   ELSE Dict(<< <<"summary", RawText(outcome.text)>> >>)
        context == DictGet(memory, "context", None)
    IN IF ~outcome.ok \/ context.t # "dict"
       THEN [memory |-> memory, called |-> TRUE, summarized |-> FALSE]
       ELSE [memory |->
                DictSet(DictSet(memory, "context",
                                DictSet(context, "conversation_summary", summary)),
                        "history", List(LastN(history, SUMMARY_KEEP))),
             called |-> TRUE, summarized |-> TRUE]

\* MemoryManager._summarize_context: [memory, called, summarized], memory
\* the aggregate after the call, changed in place only when all went well
summarize_context(memory, outcome) ==
    LET history == DictGet(memory, "history", List(<<>>)).v
        parsed == Loads(outcome.text)
        summary == IF parsed.ok THEN parsed.val
                   ELSE Dict(<< <<"summary", RawText(outcome.text)>> >>)
        context == DictGet(memory, "context", None)
    IN IF Len(history) < SUMMARY_MIN_TURNS
       THEN [memory |-> memory, called |-> FALSE, summarized |-> FALSE]
       ELSE IF ~outcome.ok
       THEN [memory |-> memory, called |-> TRUE, summarized |-> FALSE]
       \* memory["context"] raises KeyError, the item assignment TypeError
       ELSE IF context.t # "dict"
       THEN [memory |-> memory, called |-> TRUE, summarized |-> FALSE]
       ELSE [memory |->
                DictSet(DictSet(memory, "context",
                                DictSet(context, "conversation_summary", summary)),
                        "history", List(LastN(history, SUMMARY_KEEP))),
             called |-> TRUE, summarized |-> TRUE]

\* MemoryManager._summarize_context is called with an aggregate; resp.memory
\* is the aggregate it returns
SummarizeContext(memory, outcome) ==
    LET after == summarize_context(memory, outcome) IN
    /\ resp' = [op |-> "_summarize_context", at |-> now,
                req |-> [memory |-> memory],
                outcome |-> outcome,
                attempts |-> IF after.called THEN 1 ELSE 0,
                failed |-> after.called /\ ~outcome.ok,
                providerCalled |-> after.called,
                memory |-> after.memory]
    /\ UNCHANGED <<now, storeVars, sessionVars, creates, inflight, historyVars, managerVars>>

\* variant of MemoryManager_store_memory: the aggregate is summarized first
\* and the document is written from what the summarization left
MemoryManager_store_memory_summarize_first(user_id, session_id, conversation_turn, memory, addFails, outcome) ==
    LET turn == MemoryData(user_id, session_id, conversation_turn)
        invoked == ~addFails /\ SummarizeNeeded(memory)
        after == IF invoked THEN summarize_context(memory, outcome)
                 ELSE [memory |-> memory, called |-> FALSE, summarized |-> FALSE]
        memory_data ==
            IF Truthy(memory)
            THEN DictSet(DictSet(turn, "context",
                                 DictGet(after.memory, "context", EmptyDict)),
                         "history", DictGet(after.memory, "history", List(<<>>)))
            ELSE turn
        stored == VectorStore_store_memory(user_id, memory_data, addFails)
    IN /\ uuids < MaxDocs
       /\ uuids' = uuids + 1
       /\ vs_collection' = stored.collection
       /\ vs_healthy' = stored.healthy
       /\ resp' = [op |-> "store_memory", at |-> now,
                   req |-> [user_id |-> user_id, session_id |-> session_id,
                            conversation_turn |-> conversation_turn,
                            memory |-> memory],
                   status |-> IF stored.ok THEN "returned" ELSE "raised",
                   backendFailed |-> addFails,
                   providerFailed |-> after.called /\ ~outcome.ok,
                   memory_id |-> stored.id,
                   summarizeInvoked |-> invoked,
                   providerCalled |-> after.called,
                   summarized |-> after.summarized,
                   memory |-> after.memory]
       /\ UNCHANGED <<now, storeVars, sessionVars, creates, inflight, historyVars, es_healthy>>

\* MemoryManager.store_memory.  memory is the caller's aggregate (None when
\* not passed); resp.memory is that aggregate after the call.
MemoryManager_store_memory(user_id, session_id, conversation_turn, memory, addFails, outcome) ==
    LET turn == MemoryData(user_id, session_id, conversation_turn)
        memory_data ==
            IF Truthy(memory)
            THEN DictSet(DictSet(turn, "context",
                                 DictGet(memory, "context", EmptyDict)),
                         "history", DictGet(memory, "history", List(<<>>)))
            ELSE turn
        stored == VectorStore_store_memory(user_id, memory_data, addFails)
        invoked == stored.ok /\ SummarizeNeeded(memory)
        after == IF invoked THEN summarize_context(memory, outcome)
                 ELSE [memory |-> memory, called |-> FALSE, summarized |-> FALSE]
    IN /\ uuids < MaxDocs
       /\ uuids' = uuids + 1
       /\ vs_collection' = stored.collection
       /\ vs_healthy' = stored.healthy
       /\ resp' = [op |-> "store_memory", at |-> now,
                   req |-> [user_id |-> user_id, session_id |-> session_id,
                            conversation_turn |-> conversation_turn,
                            memory |-> memory],
                   status |-> IF stored.ok THEN "returned" ELSE "raised",
                   backendFailed |-> addFails,
                   providerFailed |-> after.called /\ ~outcome.ok,
                   memory_id |-> stored.id,
                   summarizeInvoked |-> invoked,
                   providerCalled |-> after.called,
                   summarized |-> after.summarized,
                   memory |-> after.memory]
       /\ UNCHANGED <<now, storeVars, sessionVars, creates, inflight, historyVars, es_healthy>>

\* variant of VsMatching: the query has no where filter
VsEveryEntry(user_id) == DOMAIN vs_collection

\* the entries of the collection that where={"user_id": user_id} matches
VsMatching(user_id) ==
    {i \in DOMAIN vs_collection : vs_collection[i].metadata.user_id = user_id}

\* the matching entries in the order of the collection
VsMatchingSeq(user_id) ==
    SelectSeq(vs_collection, LAMBDA e : e.metadata.user_id = user_id)

\* json.loads(metadata.get("full_data", "{}")) of every entry of a list, an
\* entry whose text does not decode being skipped
FullData(entries) ==
    LET decodes == SelectSeq(entries, LAMBDA e : Loads(e.metadata.full_data).ok)
    IN [i \in DOMAIN decodes |-> Loads(decodes[i].metadata.full_data).val]

\* VectorStore.get_all_user_memories: [memories, healthy].  getFails:
\* memory_collection.get raises, which is logged and answered with [].
VectorStore_get_all_user_memories(user_id, getFails) ==
    IF getFails THEN [memories |-> <<>>, healthy |-> FALSE]
    ELSE [memories |-> FullData(VsMatchingSeq(user_id)), healthy |-> vs_healthy]

\* VectorStore.search_memories: [memories, healthy].
\*   ranked      the matching entries as the backend ranks them, nearest first
\*   queryFails  memory_collection.query raises, which is logged and
\*               answered with []
\* The backend answers the limit nearest entries, the distance of the k-th
\* being k here; every decoded entry gets its distance as similarity_score.
VectorStore_search_memories(user_id, limit, ranked, queryFails) ==
    LET nearest == Take(ranked, limit)
        decodes == {k \in DOMAIN nearest :
                       Loads(vs_collection[nearest[k]].metadata.full_data).ok}
        kept == SelectSeq([k \in DOMAIN nearest |-> k], LAMBDA k : k \in decodes)
    IN IF queryFails THEN [memories |-> <<>>, healthy |-> FALSE]
       ELSE [memories |->
                [j \in DOMAIN kept |->
                    DictSet(Loads(vs_collection[nearest[kept[j]]].metadata.full_data).val,
                            "similarity_score", Num(kept[j]))],
             healthy |-> vs_healthy]

\* The timestamps are strings and the code compares them as strings: these
\* are the ones in use, in ascending string order.
Timestamps == <<"", "2024-01-01", "2024-01-02", "2024-01-03">>
TimestampRank(ts) == CHOOSE i \in DOMAIN Timestamps : <<Timestamps[i]>> = ts.v
\* ts1 < ts2 of two str
StrLess(ts1, ts2) == TimestampRank(ts1) < TimestampRank(ts2)
\* x.get("timestamp", "")
TimestampKey(x) == DictGet(x, "timestamp", Str(<<"">>))

\* memories.sort(key=timestamp): stable, so of two records with the same
\* timestamp the one that came first stays first
RECURSIVE InsertByTimestamp(_, _)
InsertByTimestamp(sorted, x) ==
    IF sorted = <<>> THEN <<x>>
    ELSE IF StrLess(TimestampKey(x), TimestampKey(sorted[1]))
         THEN <<x>> \o sorted
         ELSE <<sorted[1]>> \o InsertByTimestamp(Tail(sorted), x)
RECURSIVE SortedByTimestampFrom(_, _, _)
SortedByTimestampFrom(memories, i, acc) ==
    IF i < 1 THEN acc
    ELSE SortedByTimestampFrom(memories, i - 1, InsertByTimestamp(acc, memories[i]))
\* variant of SortedByTimestamp: the records stay in the order of the store
StoreOrder(memories) == memories
SortedByTimestamp(memories) == SortedByTimestampFrom(memories, Len(memories), <<>>)

\* the turn get_memory puts into the history for a record
HistoryEntry(memory) ==
    Dict(<< <<"messageId", DictGet(memory, "messageId", Str(<<"">>))>>,
            <<"message", DictGet(memory, "message", Str(<<"">>))>>,
            <<"response", DictGet(memory, "response", Str(<<"">>))>>,
            <<"timestamp", DictGet(memory, "timestamp", Str(<<"">>))>>,
            <<"channel", DictGet(memory, "channel", Str(<<"unknown">>))>>,
            <<"metadata", DictGet(memory, "metadata", EmptyDict)>> >>)

\* the loop of get_memory from record i on: [history, context, first, last]
RECURSIVE GetMemoryLoop(_, _, _)
GetMemoryLoop(memories, i, acc) ==
    IF i > Len(memories) THEN acc
    ELSE LET memory == memories[i]
             timestamp == DictGet(memory, "timestamp", None)
             ctx == DictGet(memory, "context", None)
             first == IF ~Truthy(timestamp) THEN acc.first
                      ELSE IF ~Truthy(acc.first) THEN timestamp
                      ELSE IF StrLess(timestamp, acc.first) THEN timestamp
                      ELSE acc.first
             last == IF ~Truthy(timestamp) THEN acc.last
                     ELSE IF ~Truthy(acc.last) THEN timestamp
                     ELSE IF StrLess(acc.last, timestamp) THEN timestamp
                     ELSE acc.last
         IN GetMemoryLoop(memories, i + 1,
               [history |-> IF {"message", "response"} \subseteq DictKeys(memory)
                            THEN Append(acc.history, HistoryEntry(memory))
                            ELSE acc.history,
                context |-> IF ctx.t = "dict" THEN DictUpdate(acc.context, ctx)
                            ELSE acc.context,
                first |-> first, last |-> last])

\* MemoryManager.get_memory: the memory object, with the sorted records it
\* was derived from
get_memory(user_id, session_id, getFails) ==
    LET all == VectorStore_get_all_user_memories(user_id, getFails).memories
        memories == IF StrGiven(session_id)
                    THEN SelectSeq(all, LAMBDA m :
                             DictGet(m, "sessionId", None) = Str(session_id))
                    ELSE all
        sorted == SortedByTimestamp(memories)
        out == GetMemoryLoop(sorted, 1,
                   [history |-> <<>>, context |-> EmptyDict,
                    first |-> None, last |-> None])
    IN [userId |-> user_id,
        sessionId |-> IF StrGiven(session_id) THEN session_id ELSE <<"">>,
        history |-> out.history,
        context |-> out.context,
        firstInteraction |-> out.first,
        lastInteraction |-> out.last,
        records |-> sorted]

\* MemoryManager.get_memory is called
MemoryManager_get_memory(user_id, session_id, getFails) ==
    /\ vs_healthy' = VectorStore_get_all_user_memories(user_id, getFails).healthy
    /\ resp' = [op |-> "get_memory", at |-> now,
                req |-> [user_id |-> user_id, session_id |-> session_id],
                status |-> "returned",
                backendFailed |-> getFails,
                before |-> vs_collection,
                memory |-> get_memory(user_id, session_id, getFails)]
    /\ UNCHANGED <<now, storeVars, sessionVars, creates, inflight, historyVars,
                   vs_collection, uuids, es_healthy>>

\* MemoryManager.search_memories is called; the backend ranks the matching
\* entries in any order, the embeddings being the provider's
MemoryManager_search_memories(user_id, limit, queryFails) ==
    \E ranked \in Orders(VsMatching(user_id)) :
        LET r == VectorStore_search_memories(user_id, limit, ranked, queryFails) IN
        /\ vs_healthy' = r.healthy
        /\ resp' = [op |-> "search_memories", at |-> now,
                    req |-> [user_id |-> user_id, limit |-> limit],
                    status |-> "returned",
                    backendFailed |-> queryFails,
                    ranked |-> ranked,
                    memories |-> r.memories]
        /\ UNCHANGED <<now, storeVars, sessionVars, creates, inflight, historyVars,
                       vs_collection, uuids, es_healthy>>

\* EmbeddingService._get_embedding is called
GetEmbedding(text, calls) ==
    LET r == get_embedding(text, calls) IN
    /\ es_healthy' = IF r.attempts > 1 \/ ~r.ok THEN FALSE ELSE es_healthy
    /\ resp' = [op |-> "_get_embedding", at |-> now,
                req |-> [texts |-> <<text>>], calls |-> calls,
                status |-> IF r.ok THEN "returned" ELSE "raised",
                embeddings |-> IF r.ok THEN <<r.embedding>> ELSE <<>>,
                failed |-> ~r.ok,
                attempts |-> r.attempts]
    /\ UNCHANGED <<now, storeVars, sessionVars, creates, inflight, historyVars,
                   vs_collection, vs_healthy, uuids>>

\* EmbeddingService.get_embeddings is called with the texts 1..n
GetEmbeddings(n, calls) ==
    LET texts == [i \in 1..n |-> i]
        r == get_embeddings_from(texts, calls, 1, 1,
                 [embeddings |-> <<>>, healthy |-> es_healthy,
                  failed |-> FALSE, attempts |-> 0])
    IN /\ es_healthy' = r.healthy
       /\ resp' = [op |-> "get_embeddings", at |-> now,
                   req |-> [texts |-> texts], calls |-> calls,
                   status |-> "returned",
                   embeddings |-> r.embeddings,
                   failed |-> r.failed,
                   attempts |-> r.attempts]
       /\ UNCHANGED <<now, storeVars, sessionVars, creates, inflight, historyVars,
                      vs_collection, vs_healthy, uuids>>

\* generate_embedding of app.py is called
GenerateEmbedding(text, calls) ==
    /\ resp' = [op |-> "generate_embedding", at |-> now,
                req |-> [texts |-> <<text>>], calls |-> calls,
                status |-> "returned",
                embeddings |->
                    << generate_embedding(IF calls[1]
                                          THEN ProviderVector(TextEmbedding(text))
                                          ELSE ProviderError) >>,
                failed |-> ~calls[1],
                attempts |-> 1]
    /\ UNCHANGED <<now, storeVars, sessionVars, creates, inflight, historyVars, managerVars>>

\* variant of VectorStore_is_healthy: a flag that went down stays down
VectorStore_is_healthy_sticky(listOk) == vs_healthy /\ listOk

\* VectorStore.is_healthy: the value of the flag after the probe.
\* listOk: client.list_collections() answers.
VectorStore_is_healthy(listOk) == listOk

\* EmbeddingService.is_healthy: _get_embedding("Health check") under its
\* retries; the flag is down while attempts fail and is set by the outcome.
EmbeddingService_is_healthy(calls) == get_embedding("Health check", calls).ok

HealthStatus(healthy) == IF healthy THEN "healthy" ELSE "unhealthy"

\* GET /api/health
HealthCheck(listOk, calls) ==
    LET vector_db == HealthStatus(VectorStore_is_healthy(listOk))
        embedding_service == HealthStatus(EmbeddingService_is_healthy(calls))
    IN
    /\ vs_healthy' = VectorStore_is_healthy(listOk)
    /\ es_healthy' = EmbeddingService_is_healthy(calls)
    /\ resp' = [op |-> "health_check", at |-> now,
                probes |-> [vector_db |-> listOk,
                            embedding_service |-> get_embedding("Health check", calls).ok],
                before |-> [vector_db |-> vs_healthy,
                            embedding_service |-> es_healthy],
                status_code |-> HTTP_OK,
                status |-> HealthStatus(vector_db = "healthy"
                                        /\ embedding_service = "healthy"),
                dependencies |-> [vector_db |-> [status |-> vector_db],
                                  embedding_service |-> [status |-> embedding_service]]]
    /\ UNCHANGED <<now, storeVars, sessionVars, creates, inflight, historyVars,
                   vs_collection, uuids>>

\* ------------------------------------------------------------ input sets
U1 == <<"u1">>
U2 == <<"u2">>
\* a userId and a key that contain the text of a type name between colons
U1ShortTerm == <<"u1", "short_term">>
K1 == <<"k1">>
ShortTermK1 == <<"short_term", "k1">>
S1 == <<"s1">>
S2 == <<"s2">>

StoreUsers == {U1, U1ShortTerm}
StoreKeys == {K1, ShortTermK1}
V1 == Dict(<< <<"a", Str(<<"x">>)>> >>)
V2 == Dict(<< <<"a", Str(<<"y">>)>>, <<"b", List(<<Str(<<"x">>)>>)>> >>)
M1 == Dict(<< <<"source", Str(<<"test">>)>> >>)
\* value and metadata (absent, empty, given) of the items stored
StoreValueMetadata == {<<V1, None>>, <<V1, M1>>, <<V2, EmptyDict>>}
StoreTTLs == {NoTTL, TTL(0), TTL(1), TTL(2)}
StoreItems ==
    \* one identity under every value and metadata, and under every ttl
    {MemoryItem(U1, "short_term", K1, vm[1], vm[2], NoTTL) :
        vm \in StoreValueMetadata}
    \cup {MemoryItem(U1, "short_term", K1, V1, None, ttl) : ttl \in StoreTTLs}
    \* two identities whose memory ids coincide
    \cup {MemoryItem(U1, "short_term", ShortTermK1, V1, None, NoTTL),
          MemoryItem(U1ShortTerm, "short_term", K1, V2, M1, NoTTL)}
    \cup {MemoryItem(U1, "long_term", K1, vm[1], vm[2], NoTTL) :
             vm \in StoreValueMetadata}
    \cup {MemoryItem(U1ShortTerm, "long_term", K1, V2, M1, NoTTL),
          MemoryItem(U1, "archive", K1, V1, None, NoTTL)}
AllUsers == StoreUsers \cup {U2}

InitStore ==
    /\ now = 0
    /\ redisHash = EmptyMap
    /\ redisExpire = EmptyMap
    /\ userIndex = [u \in AllUsers |-> {}]
    /\ sessionContext = EmptyMap
    /\ sessionExpire = EmptyMap
    /\ sessionMetadata = EmptyMap
    /\ memory_collection = <<>>
    /\ background_tasks = {}
    /\ creates = 0
    /\ inflight = NoGet
    /\ resp = NoResp
    /\ lastStore = EmptyMap
    /\ lastWrite = EmptyMap
    /\ lastContext = EmptyMap
    /\ vs_collection = <<>>
    /\ vs_healthy = TRUE
    /\ uuids = 0
    /\ es_healthy = TRUE

Init == InitStore

Next ==
    \/ \E item \in StoreItems, redisFails \in BOOLEAN :
          create_memory(item, redisFails)
    \/ \E task \in background_tasks, chromaFails \in BOOLEAN :
          RunBackgroundTask(task, ProviderVector(<<1, 0>>), chromaFails)
    \/ \E u \in StoreUsers, type \in {"", "short_term", "long_term"},
          key \in {NoStr, K1} :
          GetMemories(u, type, key, "none")
    \/ \E fault \in {"redis", "chroma"} :
          GetMemories(U1, "long_term", NoStr, fault)
    \/ Tick

Spec == Init /\ [][Next]_vars

\* The framework runs every background task once the response of its
\* request is sent: a task that is waiting is run at some point.
RunSomeTask ==
    \E task \in background_tasks, chromaFails \in BOOLEAN :
        RunBackgroundTask(task, ProviderVector(<<1, 0>>), chromaFails)
SpecFair == Init /\ [][Next]_vars /\ WF_vars(RunSomeTask)

\* ------------------------------------------- get_memories against expiry
K2 == <<"k2">>
\* short-term items of one user: one that expires, two that do not
RaceItems ==
    {MemoryItem(U1, "short_term", K1, V1, M1, TTL(1)),
     MemoryItem(U1, "short_term", K1, V2, None, NoTTL),
     MemoryItem(U1, "short_term", K2, V1, None, NoTTL)}

NextRace ==
    \/ \E item \in RaceItems : create_memory(item, FALSE)
    \/ \E type \in {"", "short_term", "long_term"}, key \in {NoStr, K1} :
          GetStart(U1, type, key)
    \/ GetRead
    \/ GetTouch
    \/ GetFinish
    \/ Tick

SpecRace == InitStore /\ [][NextRace]_vars

\* ------------------------------------------- optimize_context, its inputs
MaxMemories == 4
KeyNames == <<"k1", "k2", "k3", "k4", "k5", "k6">>
\* the background write of the n-th long-term item of user U1
SeedTask(n) ==
    LET item == MemoryItem(U1, "long_term", <<KeyNames[n]>>,
                           Dict(<< <<"fact", Str(<<KeyNames[n]>>)>> >>), None, NoTTL)
    IN [memory_id |-> MemoryId(item.userId, item.type, item.key),
        user_id |-> item.userId, text |-> Dumps(item.value),
        metadata |-> EmptyDict, seq |-> n, item |-> item]
RECURSIVE SeededCollection(_)
SeededCollection(n) ==
    IF n = 0 THEN <<>>
    ELSE Upsert(SeededCollection(n - 1),
                MemoryEmbeddingEntry(SeedTask(n), ProviderVector(<<1, 0>>)))

\* The n-th item of user u that get_memories finds in Redis when asked for
\* the type long_term: the long-term items live in ChromaDB only, so it is a
\* short-term item whose id holds the text ":long_term:", here in its key.
SeedShortTermItem(u, n) ==
    MemoryItem(u, "short_term", <<"long_term", KeyNames[n]>>,
               Dict(<< <<"fact", Str(<<KeyNames[n]>>)>> >>), None, NoTTL)
ItemId(item) == MemoryId(item.userId, item.type, item.key)
\* U1 holds n such items, U2 one of them at most
SeedShortTermItems(n) ==
    {SeedShortTermItem(U1, i) : i \in 1..n}
    \cup {SeedShortTermItem(U2, i) : i \in 1..(IF n < 1 THEN n ELSE 1)}
SeedItems(n) == SeedShortTermItems(n) \cup {SeedTask(i).item : i \in 1..n}

\* U1 and U2 have stored these short-term items, U1 has stored n long-term
\* items, and the background writes of the long-term items have run
InitOpt ==
    /\ now = 0
    /\ redisExpire = EmptyMap
    /\ sessionContext = EmptyMap
    /\ sessionExpire = EmptyMap
    /\ sessionMetadata = EmptyMap
    /\ \E n \in 0..MaxMemories :
          /\ redisHash =
                [mid \in {ItemId(it) : it \in SeedShortTermItems(n)} |->
                    StoreShortTermHash(
                        CHOOSE it \in SeedShortTermItems(n) : ItemId(it) = mid)]
          /\ userIndex =
                [u \in AllUsers |->
                    {ItemId(it) : it \in {x \in SeedShortTermItems(n) : x.userId = u}}]
          /\ memory_collection = SeededCollection(n)
          /\ creates = Cardinality(SeedItems(n))
          /\ inflight = NoGet
          /\ lastStore =
                [ident \in {<<it.userId, it.type, it.key>> : it \in SeedItems(n)} |->
                    CHOOSE it \in SeedItems(n) :
                        <<it.userId, it.type, it.key>> = ident]
          /\ lastWrite =
                [mid \in {ItemId(it) : it \in SeedItems(n)} |->
                    [item |-> CHOOSE it \in SeedItems(n) : ItemId(it) = mid,
                     at |-> 0]]
    /\ lastContext = EmptyMap
    /\ background_tasks = {}
    /\ resp = NoResp
    /\ vs_collection = <<>>
    /\ vs_healthy = TRUE
    /\ uuids = 0
    /\ es_healthy = TRUE

\* Against the query vector <<2, 1>> a memory vector scores 1 (<<2, 1>>),
\* 0.89 (<<1, 0>>), 0.45 (<<0, 1>>) or, the provider failing, 0.
QueryOutcomes == {ProviderError, ProviderVector(<<2, 1>>)}
UnitOutcome == ProviderVector(<<1, 0>>)
DiagonalOutcome == ProviderVector(<<1, 1>>)
\* what the provider does for the texts of the memories, call by call
AllUnit == [i \in 1..(MaxMemories + 1) |-> ProviderVector(<<1, 0>>)]
MemoryOutcomes ==
    {\* every memory has the embedding of the query
     [i \in 1..(MaxMemories + 1) |-> ProviderVector(<<2, 1>>)],
     \* the first scores 0.89 and the others tie at 1
     [i \in 1..(MaxMemories + 1) |->
         IF i = 1 THEN ProviderVector(<<1, 0>>) ELSE ProviderVector(<<2, 1>>)],
     \* the provider is down
     [i \in 1..(MaxMemories + 1) |-> ProviderError],
     \* scores under and over the threshold, out of order
     [i \in 1..(MaxMemories + 1) |->
         IF i % 3 = 1 THEN ProviderVector(<<0, 1>>)
         ELSE IF i % 3 = 2 THEN ProviderVector(<<2, 1>>)
         ELSE ProviderVector(<<1, 0>>)]}
SessionContexts == {Dict(<< <<"topic", Str(<<"billing">>)>> >>),
                    Dict(<< <<"topic", Str(<<"refund">>)>>, <<"step", Num(2)>> >>)}

NextOpt ==
    \* every history length
    \/ \E n \in 0..MaxHist, u \in {NoStr, U2}, sid \in {NoStr, S1} :
          OptimizeContext(n, <<"q">>, u, sid, "none", UnitOutcome, AllUnit, FALSE)
    \* every outcome of the embedding provider, every order of the memories
    \/ \E qOut \in QueryOutcomes, mOuts \in MemoryOutcomes :
          OptimizeContext(1, <<"q">>, U1, NoStr, "none", qOut, mOuts, FALSE)
    \* every combination of given and absent arguments and of store failures
    \/ \E u \in {NoStr, <<"">>, U2, U1ShortTerm}, sid \in {NoStr, S1},
          query \in {<<"">>, <<"q">>}, memFault \in {"none", "redis", "chroma"},
          ctxFails \in BOOLEAN :
          OptimizeContext(HISTORY_LIMIT + 1, query, u, sid, memFault,
                          DiagonalOutcome, AllUnit, ctxFails)
    \/ \E ctx \in SessionContexts, fails \in BOOLEAN :
          update_session_context(S1, ctx, fails)

SpecOpt == InitOpt /\ [][NextOpt]_vars

\* ------------------------------------- MemoryManager.store_memory, inputs
\* conversation turns T0, T1, ... of an aggregate
Turn(i) == Dict(<< <<"message", Num(i)>>, <<"response", Num(i)>> >>)
\* an aggregate with n turns of history, with or without its context
Aggregate(n, withContext) ==
    Dict((IF withContext
          THEN << <<"context", Dict(<< <<"topic", Str(<<"billing">>)>> >>)>> >>
          ELSE <<>>)
         \o << <<"history", List([i \in 1..n |-> Turn(i - 1)])>> >>)
NewTurn == Dict(<< <<"message", Str(<<"hi">>)>>, <<"response", Str(<<"hello">>)>> >>)
\* the model answers JSON, answers prose, or fails
SummaryOutcomes ==
    {SummaryError,
     SummaryText(Dumps(Dict(<< <<"issues", Str(<<"refund">>)>> >>))),
     SummaryText(<<Q(<<"The customer asked">>), Q(<<"for a refund">>)>>)}

\* the aggregates a caller holds: with or without a context, n turns long
Aggregates == [withContext \in BOOLEAN |->
                  [n \in 0..MaxAggHist |-> Aggregate(n, withContext)]]
\* no aggregate, an empty one, and the longest one
EdgeAggregates == {None, EmptyDict, Aggregates[TRUE][MaxAggHist]}
SummaryJSON == SummaryText(Dumps(Dict(<< <<"issues", Str(<<"refund">>)>> >>)))

NextMgr ==
    \* every history length
    \/ \E n \in 0..MaxAggHist, withContext \in BOOLEAN :
          MemoryManager_store_memory(U1, S1, NewTurn, Aggregates[withContext][n],
                                     FALSE, SummaryJSON)
    \* every outcome of the summarization, around the threshold
    \/ \E n \in (SUMMARIZE_OVER - 1)..MaxAggHist, outcome \in SummaryOutcomes :
          MemoryManager_store_memory(U1, S1, NewTurn, Aggregates[TRUE][n],
                                     FALSE, outcome)
    \* no aggregate, an empty one, and a vector store that fails
    \/ \E memory \in EdgeAggregates, addFails \in BOOLEAN :
          MemoryManager_store_memory(U1, S1, NewTurn, memory, addFails, SummaryError)

SpecMgr == InitStore /\ [][NextMgr]_vars

\* -------------------------------- MemoryManager._summarize_context, inputs
\* the context of an aggregate: empty, with a topic, with an earlier summary
SummaryContexts ==
    << EmptyDict,
       Dict(<< <<"topic", Str(<<"billing">>)>> >>),
       Dict(<< <<"conversation_summary", Dict(<< <<"issues", Str(<<"late">>)>> >>)>>,
               <<"topic", Str(<<"billing">>)>> >>) >>
\* the aggregates Memory.dict() gives: a context and n turns of history
SummaryAggregates ==
    [c \in DOMAIN SummaryContexts |->
        [n \in 0..MaxAggHist |->
            Dict(<< <<"context", SummaryContexts[c]>>,
                    <<"history", List([i \in 1..n |-> Turn(i - 1)])>> >>)]]

NextSummarize ==
    \E c \in DOMAIN SummaryContexts, n \in 0..MaxAggHist, outcome \in SummaryOutcomes :
        SummarizeContext(SummaryAggregates[c][n], outcome)

SpecSummarize == InitStore /\ [][NextSummarize]_vars

\* ------------------------------------------ the provider calls, inputs
MaxTexts == 201
MaxCalls == 4
\* whether the k-th call of the provider answers
CallOutcomes == [1..MaxCalls -> BOOLEAN]
\* the numbers of texts around the batch size
TextCounts == {0, 1, BATCH_SIZE - 1, BATCH_SIZE, BATCH_SIZE + 1,
               2 * BATCH_SIZE, MaxTexts}

NextEmbed ==
    \/ \E calls \in CallOutcomes : GetEmbedding(1, calls)
    \/ \E n \in TextCounts, calls \in CallOutcomes : GetEmbeddings(n, calls)
    \/ \E calls \in CallOutcomes : GenerateEmbedding(1, calls)
    \/ \E n \in {SUMMARY_MIN_TURNS - 1, SUMMARY_MIN_TURNS}, outcome \in SummaryOutcomes :
          SummarizeContext(SummaryAggregates[2][n], outcome)

SpecEmbed == InitStore /\ [][NextEmbed]_vars

\* ------------------------------------------- the similarity of two vectors
MaxComponent == 2
\* the empty vector and the vectors of two small components of either sign
CosineVectors == {<<>>} \cup [1..2 -> -1..MaxComponent]

InitCosine ==
    /\ now = 0
    /\ redisHash = EmptyMap
    /\ redisExpire = EmptyMap
    /\ userIndex = [u \in AllUsers |-> {}]
    /\ sessionContext = EmptyMap
    /\ sessionExpire = EmptyMap
    /\ sessionMetadata = EmptyMap
    /\ memory_collection = <<>>
    /\ background_tasks = {}
    /\ creates = 0
    /\ inflight = NoGet
    /\ \E q \in CosineVectors, m \in CosineVectors :
          resp = [op |-> "embeddings", query_embedding |-> q,
                  memory_embedding |-> m]
    /\ lastStore = EmptyMap
    /\ lastWrite = EmptyMap
    /\ lastContext = EmptyMap
    /\ vs_collection = <<>>
    /\ vs_healthy = TRUE
    /\ uuids = 0
    /\ es_healthy = TRUE

\* the body of the loop over the memory embeddings, for one of them
Similarity ==
    /\ resp.op = "embeddings"
    /\ resp' = [op |-> "similarity",
                query_embedding |-> resp.query_embedding,
                memory_embedding |-> resp.memory_embedding,
                similarity |-> SimilarityFloat(resp.query_embedding,
                                               resp.memory_embedding)]
    /\ UNCHANGED <<now, storeVars, sessionVars, creates, inflight, historyVars,
                   managerVars>>

SpecCosine == InitCosine /\ [][Similarity]_vars

\* ------------------------------------------------------- session context
NextSession ==
    \/ \E sid \in {S1, S2}, context \in SessionContexts \cup {EmptyDict},
          fails \in BOOLEAN :
          update_session_context(sid, context, fails)
    \/ \E sid \in {S1, S2}, fails \in BOOLEAN : GetSessionContext(sid, fails)
    \/ Tick

SpecSession == InitStore /\ [][NextSession]_vars

\* ------------------------------------------------------- health reporting
NextHealth ==
    \/ \E listOk \in BOOLEAN, calls \in CallOutcomes : HealthCheck(listOk, calls)
    \* the requests that move the flags between two health checks
    \/ \E calls \in CallOutcomes : GetEmbedding(1, calls)
    \/ \E memory \in EdgeAggregates, addFails \in BOOLEAN :
          MemoryManager_store_memory(U1, S1, NewTurn, memory, addFails, SummaryError)

SpecHealth == InitStore /\ [][NextHealth]_vars

\* ------------------- MemoryManager.get_memory and search_memories, inputs
\* the turns stored: without a timestamp text, and on two days
RecallTimestamps == {"", "2024-01-01", "2024-01-02"}
RecallTurns ==
    [ts \in RecallTimestamps |->
        Dict(<< <<"message", Str(<<"hi">>)>>, <<"response", Str(<<"hello">>)>>,
                <<"timestamp", Str(<<ts>>)>> >>)]
\* the aggregate passed with a turn: none, or one of two contexts
RecallAggregates ==
    << None,
       Dict(<< <<"context", Dict(<< <<"topic", Str(<<"billing">>)>> >>)>>,
               <<"history", List(<<>>)>> >>),
       Dict(<< <<"context", Dict(<< <<"topic", Str(<<"refund">>)>>,
                                    <<"step", Num(2)>> >>)>>,
               <<"history", List(<<>>)>> >>) >>
\* the turns U1 stores: session, timestamp, aggregate
RecallStores ==
    << [sid |-> S1, ts |-> "2024-01-02", a |-> 2],
       [sid |-> S1, ts |-> "2024-01-01", a |-> 3],
       [sid |-> S1, ts |-> "", a |-> 3],
       [sid |-> S2, ts |-> "2024-01-01", a |-> 2],
       [sid |-> S2, ts |-> "", a |-> 1],
       [sid |-> S2, ts |-> "2024-01-02", a |-> 1] >>
SearchLimits == {1, 2}

NextRecall ==
    \* the turns of U1: either session, with and without a timestamp and a
    \* context
    \/ \E k \in DOMAIN RecallStores :
          MemoryManager_store_memory(U1, RecallStores[k].sid,
                                     RecallTurns[RecallStores[k].ts],
                                     RecallAggregates[RecallStores[k].a],
                                     FALSE, SummaryError)
    \* a turn of U2, and a vector store that fails
    \/ \E addFails \in BOOLEAN :
          MemoryManager_store_memory(U2, S1, RecallTurns["2024-01-01"], None,
                                     addFails, SummaryError)
    \/ \E u \in {U1, U2}, sid \in {NoStr, S1, S2}, getFails \in BOOLEAN :
          MemoryManager_get_memory(u, sid, getFails)
    \/ \E u \in {U1, U2}, limit \in SearchLimits, queryFails \in BOOLEAN :
          MemoryManager_search_memories(u, limit, queryFails)

SpecRecall == InitStore /\ [][NextRecall]_vars



\* ================================================================ claims
IsStore == resp.op = "store_memory" /\ resp.status = "returned"
IsOptimize == resp.op = "optimize_context"
OptimizeOK == IsOptimize /\ resp.status = HTTP_OK
IsGet == resp.op = "get_memories" /\ resp.status = HTTP_OK
Returned(mid) == \E i \in DOMAIN resp.memories : resp.memories[i].id = mid
\* what the stores hold for metadata that was not given
StoredMetadata(m) == IF m = None THEN EmptyDict ELSE m
\* the history of an aggregate that has one
HistoryOf(memory) == DictGet(memory, "history", List(<<>>)).v
Min(a, b) == IF a < b THEN a ELSE b
\* candidate c ranks ahead of candidate d: a greater score, or the same
\* score and an earlier place among the memories
Ahead(c, d) ==
    \/ ScoreLess(d.score, c.score)
    \/ ScoreEq(c.score, d.score) /\ c.pos < d.pos
RelevantPositions ==
    {resp.relevant_memories[k].pos : k \in DOMAIN resp.relevant_memories}

C2_HistoryTruncation ==
    OptimizeOK =>
        LET h == resp.req.conversation_history
            out == resp.conversation_history IN
        /\ Len(h) <= 10 => out = h
        /\ Len(h) > 10 =>
              /\ Len(out) = 10
              /\ \A i \in 1..2 : out[i] = h[i]
              /\ \A i \in 3..10 : out[i] = h[Len(h) - 10 + i]
              /\ \A i, j \in 1..10 : i < j => out[i] < out[j]
        /\ Len(h) = 12 => out = <<0, 1, 4, 5, 6, 7, 8, 9, 10, 11>>

\* C2 witness: a history of 12 turns came back as T0, T1, T4, ..., T11
C2_Witness ==
    /\ OptimizeOK
    /\ Len(resp.req.conversation_history) = 12
    /\ resp.conversation_history = <<0, 1, 4, 5, 6, 7, 8, 9, 10, 11>>

\* C3 as stated: when fetching the user's memories fails, optimize_context
\* still returns a result, and when the session-context fetch fails it
\* still returns a result.
C3_FaultIsolation ==
    IsOptimize =>
        /\ resp.memoryFetchFailed => resp.status = HTTP_OK
        /\ resp.contextFetchFailed => resp.status = HTTP_OK

\* C4: optimize_context without a user and without a session answers the
\* truncated history, no relevant memories and the empty session context,
\* without raising, and reads no store and asks for no embedding.
C4_NoUserNoSession ==
    (/\ IsOptimize
     /\ resp.req.userId \in {NoStr, <<"">>}
     /\ resp.req.sessionId \in {NoStr, <<"">>}) =>
        LET h == resp.req.conversation_history IN
        /\ resp.status = HTTP_OK
        /\ resp.conversation_history =
              IF Len(h) > 10
              THEN SubSeq(h, 1, 2) \o SubSeq(h, Len(h) - 7, Len(h)) ELSE h
        /\ resp.relevant_memories = <<>>
        /\ resp.session_context = EmptyDict
        /\ resp.storeReads = 0
        /\ resp.embeddingCalls = 0

\* C4 witness: a request without user and session, with a history to be
\* truncated, was answered while the long-term store held memories
C4_Witness ==
    /\ OptimizeOK
    /\ resp.req.userId = NoStr /\ resp.req.sessionId = NoStr
    /\ Len(resp.req.conversation_history) > 10
    /\ Len(resp.conversation_history) = 10
    /\ memory_collection # <<>>

\* C5: when a session is given and fetching its context raises or finds
\* nothing stored, the session context returned is the empty map and the
\* error is not propagated: the only error optimize_context answers is the
\* one of the memory fetch.
C5_SessionFetchIsolated ==
    (IsOptimize /\ StrGiven(resp.req.sessionId)) =>
        /\ resp.contextFetchFailed =>
              resp.status = HTTP_OK /\ resp.session_context = EmptyDict
        /\ (resp.status = HTTP_OK /\ resp.req.sessionId \notin DOMAIN sessionContext)
              => resp.session_context = EmptyDict
        /\ resp.status # HTTP_OK => resp.memoryFetchFailed

\* C5 witness: the fetch of a stored session context failed and the answer
\* carries the empty map
C5_Witness ==
    /\ OptimizeOK
    /\ resp.req.sessionId \in DOMAIN sessionContext
    /\ resp.contextFetchFailed
    /\ resp.session_context = EmptyDict

\* C6: relevant_memories is sorted by descending score, has at most 3
\* entries, none with a score <= 0.7, keeps candidates of equal score in
\* their original order, and is the first 3 of the stably sorted candidates
\* without those that score <= 0.7.
C6_RelevantMemoriesRanking ==
    OptimizeOK =>
        LET cands == resp.candidates
            rel == resp.relevant_memories
            above == {i \in DOMAIN cands : AboveThreshold(cands[i].score)}
            top == {i \in above :
                       Cardinality({j \in above : Ahead(cands[j], cands[i])}) < 3}
        IN /\ Len(rel) <= 3
           /\ \A k \in DOMAIN rel :
                 /\ rel[k].pos \in above
                 /\ rel[k].content = cands[rel[k].pos].memory.value
                 /\ rel[k].relevance = Round2(cands[rel[k].pos].score)
           /\ \A k, l \in DOMAIN rel :
                 k < l => Ahead(cands[rel[k].pos], cands[rel[l].pos])
           /\ RelevantPositions = top

\* C6 witness: of four candidates, all above 0.7, the first scores less than
\* the other three, which tie: the three are returned in their original
\* order and the first is cut by the cap
C6_Witness ==
    /\ OptimizeOK
    /\ Len(resp.candidates) = 4
    /\ \A i \in DOMAIN resp.candidates : AboveThreshold(resp.candidates[i].score)
    /\ ScoreLess(resp.candidates[1].score, resp.candidates[2].score)
    /\ Len(resp.relevant_memories) = 3
    /\ \A k \in 1..3 : resp.relevant_memories[k].pos = k + 1

LongTermIdsOf(user_id) ==
    {mid \in DOMAIN lastWrite :
        /\ lastWrite[mid].item.type = "long_term"
        /\ lastWrite[mid].item.userId = user_id
        /\ \E i \in DOMAIN memory_collection : memory_collection[i].id = mid}

\* C8 as stated: every record a get returns carries exactly the value and
\* the metadata of the item last stored under its id, absent metadata
\* included; and, for both memory types, storing an item and then
\* retrieving it does return it: a get of the long-term items of a user,
\* the stores being up, returns every long-term item written for that user.
C8_RoundTripIdentical ==
    /\ IsGet =>
          \A i \in DOMAIN resp.memories :
              LET r == resp.memories[i] IN
              /\ r.id \in DOMAIN lastWrite
              /\ r.value = lastWrite[r.id].item.value
              /\ r.metadata = lastWrite[r.id].item.metadata
    /\ (/\ resp.op = "get_memories"
        /\ resp.req.type = "long_term" /\ resp.req.key = NoStr
        /\ resp.lookedUp /\ ~resp.chromaFails) =>
          /\ resp.status = HTTP_OK
          /\ \A mid \in LongTermIdsOf(resp.req.user_id) : Returned(mid)

\* C8 for the short-term items, which is what the code does: a get returns
\* every short-term item of the user that Redis still holds; a returned
\* record carries the stored value and the stored metadata, absent metadata
\* coming back as the empty map.
C8_RoundTrip ==
    IsGet =>
        /\ \A i \in DOMAIN resp.memories :
              LET r == resp.memories[i]
                  w == lastWrite[r.id] IN
              /\ r.id \in DOMAIN lastWrite
              /\ r.type = "short_term"
              /\ r.value = w.item.value
              /\ r.metadata = StoredMetadata(w.item.metadata)
        /\ (resp.req.type = "" /\ resp.req.key = NoStr) =>
              \A mid \in SMembers(resp.req.user_id) :
                  mid \in DOMAIN redisHash => Returned(mid)

\* reached under C8_RoundTrip: a get returned a short-term item stored
\* without metadata
C8_Witness ==
    /\ IsGet
    /\ \E i \in DOMAIN resp.memories :
          /\ resp.memories[i].type = "short_term"
          /\ lastWrite[resp.memories[i].id].item.metadata = None
          /\ resp.memories[i].metadata = EmptyDict

\* C9 as stated: an item stored with ttl T is returned by every unfiltered
\* get of its user made before T seconds have passed since the store, and by
\* no get made after T seconds have passed.
C9_TTLExpiry ==
    (IsGet /\ resp.req.type = "" /\ resp.req.key = NoStr) =>
        \A mid \in DOMAIN lastWrite :
            LET w == lastWrite[mid] IN
            (/\ w.item.type = "short_term"
             /\ w.item.userId = resp.req.user_id
             /\ w.item.ttl.given)
            => /\ resp.at < w.at + w.item.ttl.secs => Returned(mid)
               /\ resp.at > w.at + w.item.ttl.secs => ~Returned(mid)

\* C9 for every ttl other than 0: this much the code does
C9_TTLExpiryNonZero ==
    (IsGet /\ resp.req.type = "" /\ resp.req.key = NoStr) =>
        \A mid \in DOMAIN lastWrite :
            LET w == lastWrite[mid] IN
            (/\ w.item.type = "short_term"
             /\ w.item.userId = resp.req.user_id
             /\ w.item.ttl.given /\ w.item.ttl.secs # 0)
            => (Returned(mid) <=> resp.at < w.at + w.item.ttl.secs)

UniqueIds(collection) ==
    \A i, j \in DOMAIN collection :
        collection[i].id = collection[j].id => i = j

\* C10 as stated: per (userId, type, key) at most one item is stored and it
\* holds the value and metadata of the last store with that identity.
C10_MostRecentStoreWins ==
    /\ UniqueIds(memory_collection)
    /\ \A ident \in DOMAIN lastStore :
          LET item == lastStore[ident]
              mid == MemoryId(ident[1], ident[2], ident[3]) IN
          /\ (item.type = "short_term" /\ mid \in DOMAIN redisHash) =>
                /\ Loads(redisHash[mid].value).val = item.value
                /\ Loads(redisHash[mid].metadata).val = StoredMetadata(item.metadata)
          /\ item.type = "long_term" =>
                \A i \in DOMAIN memory_collection :
                    memory_collection[i].id = mid =>
                        memory_collection[i].document = Dumps(item.value)

\* what the stores do guarantee, next to C10: per memory id (not per
\* identity) at most one item is stored, and it holds the value and metadata
\* of the last write applied under that id: the last short-term store, or
\* the last background write that ran.
C10_LastWriteWins ==
    /\ UniqueIds(memory_collection)
    /\ \A mid \in DOMAIN redisHash :
          /\ mid \in DOMAIN lastWrite
          /\ redisHash[mid].id = mid
          /\ Loads(redisHash[mid].value).val = lastWrite[mid].item.value
          /\ Loads(redisHash[mid].metadata).val =
                StoredMetadata(lastWrite[mid].item.metadata)
          /\ redisHash[mid].userId = lastWrite[mid].item.userId
    /\ \A i \in DOMAIN memory_collection :
          LET e == memory_collection[i] IN
          /\ e.id \in DOMAIN lastWrite
          /\ e.document = Dumps(lastWrite[e.id].item.value)
          /\ \A k \in DictKeys(StoredMetadata(lastWrite[e.id].item.metadata)) :
                DictGet(e.metadata, k, None) =
                    DictGet(lastWrite[e.id].item.metadata, k, None)

\* reached under C10_LastWriteWins: two long-term stores went to one identity; the write of the
\* first ran last, and the one entry held carries it
C10_Witness ==
    /\ resp.op = "store_memory_embedding" /\ resp.stored
    /\ Len(memory_collection) = 1
    /\ background_tasks = {}
    /\ LET item == resp.req.item IN
       /\ lastStore[<<item.userId, item.type, item.key>>] # item
       /\ memory_collection[1].document = Dumps(item.value)

\* C11 as stated: get_memories queries the long-term store exactly when the
\* type asked for is long_term and the short-term lookup gave no items; the
\* query filters on userId only, and the records rebuilt from its answer
\* are the long-term items stored for that user, each with the type
\* long_term, the requesting userId and the stored value.
C11_TieredFallback ==
    (resp.op = "get_memories" /\ resp.lookedUp) =>
        /\ resp.queried <=> (resp.req.type = "long_term" /\ resp.found = 0)
        /\ (resp.queried /\ ~resp.chromaFails) =>
              /\ resp.status = HTTP_OK
              /\ \A mid \in LongTermIdsOf(resp.req.user_id) : Returned(mid)
              /\ \A i \in DOMAIN resp.memories :
                    LET r == resp.memories[i] IN
                    /\ r.type = "long_term"
                    /\ r.userId = resp.req.user_id
                    /\ r.id \in LongTermIdsOf(resp.req.user_id)
                    /\ r.value = lastWrite[r.id].item.value

\* what the code does about C11: the long-term store is queried exactly
\* then, and every request that queries it ends in a 500 without records
C11_FallbackFails ==
    (resp.op = "get_memories" /\ resp.lookedUp) =>
        /\ resp.queried <=> (resp.req.type = "long_term" /\ resp.found = 0)
        /\ resp.queried => (resp.status = HTTP_SERVER_ERROR /\ resp.memories = <<>>)

IsManagerOp == resp.op \in {"store_memory", "get_memory", "search_memories"}
\* C12: when the long-term store backend fails during MemoryManager.store_memory,
\* get_memory or search_memories, the operation ends in an error delivered to
\* its caller, never in a normal result.
C12_BackendFailureRaises ==
    (IsManagerOp /\ resp.backendFailed) => resp.status = "raised"

\* What the code does: a failed add raises; a failed get and a failed query
\* are logged by the vector store and answered with no records, so that
\* get_memory returns an empty memory and search_memories an empty list.
C12_ReadsSwallowFailure ==
    (IsManagerOp /\ resp.backendFailed) =>
        /\ resp.op = "store_memory" => resp.status = "raised"
        /\ resp.op = "get_memory" =>
              (resp.status = "returned" /\ resp.memory.history = <<>>)
        /\ resp.op = "search_memories" =>
              (resp.status = "returned" /\ resp.memories = <<>>)

\* C13: when the provider call fails during summarization, _summarize_context
\* returns the memory unmodified, and store_memory still returns the id of
\* the document it persisted, without raising.
C13_SummaryFailureTolerated ==
    (resp.op = "store_memory" /\ resp.providerFailed) =>
        /\ resp.status = "returned"
        /\ resp.memory = resp.req.memory
        /\ \E i \in DOMAIN vs_collection :
              /\ vs_collection[i].id = resp.memory_id
              /\ vs_collection[i].metadata.user_id = resp.req.user_id

\* a store whose summarization was started and found the provider down
C13_Witness ==
    /\ resp.op = "store_memory"
    /\ resp.summarizeInvoked
    /\ resp.providerFailed
    /\ HistoryLen(resp.req.memory) > SUMMARIZE_OVER

\* C14: when the history has at least 5 turns and the provider returns a
\* text, the context gains the key conversation_summary, holding the parsed
\* JSON, or {summary: text} when the text is not valid JSON, and the history
\* is replaced by its last 10 turns in order; for a history of fewer than 5
\* turns the memory is unchanged and the provider is not called.
C14_Summarization ==
    resp.op = "_summarize_context" =>
        LET before == resp.req.memory
            history == DictGet(before, "history", None).v
            n == Len(history)
            context == DictGet(before, "context", None)
            after == resp.memory
            text == resp.outcome.text
            summary == DictGet(DictGet(after, "context", None),
                               "conversation_summary", None)
        IN /\ (n >= 5 /\ resp.outcome.ok) =>
                 /\ resp.providerCalled
                 /\ summary = IF Loads(text).ok THEN Loads(text).val
                               ELSE Dict(<< <<"summary", RawText(text)>> >>)
                 /\ \A k \in DictKeys(context) \ {"conversation_summary"} :
                       DictGet(DictGet(after, "context", None), k, None)
                           = DictGet(context, k, None)
                 /\ DictGet(after, "history", None).v
                       = [i \in 1..(IF n < 10 THEN n ELSE 10) |->
                             history[i + (IF n < 10 THEN 0 ELSE n - 10)]]
           /\ n < 5 => (after = before /\ ~resp.providerCalled)

\* a history of more than 10 turns summarized from a text that is not JSON,
\* over a context that held an earlier summary
C14_Witness ==
    /\ resp.op = "_summarize_context"
    /\ Len(DictGet(resp.req.memory, "history", None).v) > 10
    /\ resp.outcome.ok
    /\ ~Loads(resp.outcome.text).ok
    /\ "conversation_summary" \in DictKeys(DictGet(resp.req.memory, "context", None))
    /\ resp.memory # resp.req.memory

\* the entries a get_memory for the user and the session is about
GetEntries ==
    {i \in DOMAIN vs_collection :
        /\ vs_collection[i].metadata.user_id = resp.req.user_id
        /\ StrGiven(resp.req.session_id) =>
              vs_collection[i].metadata.session_id = Str(resp.req.session_id)}
HistoryTimestamp(i) == DictGet(resp.memory.history[i], "timestamp", None)
RecordContext(i) == DictGet(resp.memory.records[i], "context", EmptyDict)
\* the history holds the stored records of the user and the session, each
\* once, ascending by timestamp; the context is the fold of their contexts
\* in that order, a later key overwriting; nothing is written to the store
HistoryAndContext ==
    LET history == resp.memory.history
        records == resp.memory.records
    IN /\ Len(history) = Cardinality(GetEntries)
       /\ Len(records) = Len(history)
       /\ \E p \in Orders(GetEntries) :
             \A k \in DOMAIN records :
                /\ records[k] = Loads(vs_collection[p[k]].metadata.full_data).val
                /\ HistoryTimestamp(k) = vs_collection[p[k]].metadata.timestamp
                /\ \A f \in {"message", "response", "messageId", "channel", "metadata"} :
                      DictGet(history[k], f, None) = DictGet(records[k], f, None)
       /\ \A i, j \in DOMAIN history :
             i < j => ~StrLess(HistoryTimestamp(j), HistoryTimestamp(i))
       /\ DictKeys(resp.memory.context)
             = UNION {DictKeys(RecordContext(k)) : k \in DOMAIN records}
       /\ \A key \in DictKeys(resp.memory.context) :
             LET last == CHOOSE k \in DOMAIN records :
                            /\ key \in DictKeys(RecordContext(k))
                            /\ \A l \in DOMAIN records :
                                  key \in DictKeys(RecordContext(l)) => l <= k
             IN DictGet(resp.memory.context, key, None)
                    = DictGet(RecordContext(last), key, None)
       /\ vs_collection = resp.before

C16_SearchIsolation ==
    resp.op = "search_memories" =>
        /\ Len(resp.memories) <= resp.req.limit
        /\ \A i \in DOMAIN resp.memories :
              LET entry == vs_collection[resp.ranked[i]]
                  score == DictGet(resp.memories[i], "similarity_score", None)
              IN /\ DictGet(resp.memories[i], "userId", None) = Str(resp.req.user_id)
                 /\ entry.metadata.user_id = resp.req.user_id
                 /\ resp.memories[i]
                       = DictSet(Loads(entry.metadata.full_data).val,
                                 "similarity_score", score)
                 /\ \A j \in DOMAIN resp.memories :
                       i < j => score.v <= DictGet(resp.memories[j],
                                                   "similarity_score", None).v

\* a search that returns a record of the user while the store holds a record
\* of another user
C16_Witness ==
    /\ resp.op = "search_memories"
    /\ Len(resp.memories) >= 1
    /\ \E i \in DOMAIN vs_collection :
          vs_collection[i].metadata.user_id # resp.req.user_id

\* the batch part of C17: one vector per text, in the order of the texts,
\* zero for the texts of a batch whose call failed, the provider's otherwise
BatchOutput ==
    resp.op = "get_embeddings" =>
        /\ Len(resp.embeddings) = Len(resp.req.texts)
        /\ \A i \in DOMAIN resp.req.texts :
              resp.embeddings[i] =
                  IF resp.calls[((i - 1) \div BATCH_SIZE) + 1]
                  THEN TextEmbedding(resp.req.texts[i])
                  ELSE ZeroVector

\* C17: when the embedding provider fails, the single-text path returns an
\* all-zero vector and does not raise; when a batch call fails, every text of
\* that batch gets an all-zero vector, the output has one vector per input
\* text in input order, and the vectors of other batches are unaffected.
C17_ZeroVectorOnFailure ==
    /\ (resp.op \in {"generate_embedding", "_get_embedding"} /\ resp.failed) =>
          (resp.status = "returned" /\ resp.embeddings = <<ZeroVector>>)
    /\ BatchOutput

\* What the code does: generate_embedding of app.py and the batches of
\* get_embeddings degrade to zero vectors; EmbeddingService._get_embedding
\* raises once its attempts are used up.
C17_SingleTextRaises ==
    /\ (resp.op = "generate_embedding" /\ resp.failed) =>
          (resp.status = "returned" /\ resp.embeddings = <<ZeroVector>>)
    /\ (resp.op = "_get_embedding" /\ resp.failed) =>
          (resp.status = "raised" /\ resp.embeddings = <<>>)
    /\ BatchOutput

\* an operation that called the provider
IsProviderOp ==
    /\ resp.op \in {"_get_embedding", "get_embeddings", "generate_embedding",
                    "_summarize_context"}
    /\ resp.attempts >= 1
\* C18: every provider call (single embedding, batch embedding, summarization
\* completion) is retried up to 3 attempts: a call that fails once and then
\* succeeds yields the successful result, so that an operation ends in its
\* failure outcome only after 3 attempts, and never makes more than 3.
C18_BoundedRetry ==
    IsProviderOp =>
        /\ resp.attempts <= RETRY_ATTEMPTS
        /\ resp.failed => resp.attempts = RETRY_ATTEMPTS

\* What the code does: only _get_embedding retries; a batch, a call of
\* generate_embedding and a summarization make one attempt each.
C18_OnlySingleTextRetries ==
    IsProviderOp =>
        /\ resp.op = "_get_embedding" =>
              /\ resp.attempts <= RETRY_ATTEMPTS
              /\ resp.failed => resp.attempts = RETRY_ATTEMPTS
              /\ (~resp.calls[1] /\ resp.calls[2]) =>
                    (~resp.failed /\ resp.attempts = 2)
        /\ resp.op # "_get_embedding" => resp.attempts = 1

\* the ids of the long-term items stored
LongTermIds == {ItemId(it) : it \in {x \in StoreItems : x.type = "long_term"}}
Pending(mid) == \E task \in background_tasks : task.memory_id = mid
InCollection(mid) == \E i \in DOMAIN memory_collection : memory_collection[i].id = mid
TaskFailed(mid) ==
    /\ resp.op = "store_memory_embedding"
    /\ resp.req.memory_id = mid
    /\ ~resp.stored
\* a step of create_memory that accepts a long-term item
LongTermCreated ==
    /\ creates' = creates + 1
    /\ resp'.op = "create_memory"
    /\ resp'.req.type = "long_term"
    /\ resp'.status = HTTP_OK
\* a step of a background task whose upsert went through
TaskStored ==
    /\ background_tasks' # background_tasks
    /\ resp'.op = "store_memory_embedding"
    /\ resp'.stored

\* C19: a long-term create_memory returns its id before the embedding and
\* the upsert are performed: the handler leaves the long-term store as it
\* was and leaves a task for the id behind, so that a read right after the
\* response may not see the item; a task that runs while the backend does
\* not fail puts an entry under the returned id, entries stay, and every
\* waiting task is run, so that the item is eventually present under its id
\* unless the backend failed for it.
C19_DeferredWrite ==
    /\ [][LongTermCreated =>
             /\ memory_collection' = memory_collection
             /\ resp'.id \in LongTermIds
             /\ \E task \in background_tasks' \ background_tasks :
                   task.memory_id = resp'.id]_vars
    /\ [][TaskStored =>
             \E i \in DOMAIN memory_collection' :
                memory_collection'[i].id = resp'.req.memory_id]_vars
    /\ [][\A mid \in LongTermIds : InCollection(mid) => InCollection(mid)']_vars
    /\ \A mid \in LongTermIds :
          Pending(mid) ~> (InCollection(mid) \/ TaskFailed(mid))

\* the response of a long-term create is out, its task waits, and the
\* long-term store has no entry under the returned id
C19_Witness ==
    /\ resp.op = "create_memory"
    /\ resp.req.type = "long_term"
    /\ resp.status = HTTP_OK
    /\ Pending(resp.id)
    /\ ~InCollection(resp.id)

\* C20: a create_memory request whose type is neither short_term nor
\* long_term is answered with an error response, and its step leaves the
\* short-term store, the per-user index, the long-term store and the queue
\* of background tasks as they were.
C20_InvalidTypeRejected ==
    [][(/\ creates' = creates + 1
        /\ resp'.op = "create_memory"
        /\ resp'.req.type \notin {"short_term", "long_term"})
          => /\ resp'.status >= HTTP_BAD_REQUEST
             /\ resp'.id = NoStr
             /\ redisHash' = redisHash
             /\ redisExpire' = redisExpire
             /\ userIndex' = userIndex
             /\ memory_collection' = memory_collection
             /\ background_tasks' = background_tasks]_vars

\* a request of an unknown type was refused while a background task was
\* waiting
C20_Witness ==
    /\ resp.op = "create_memory"
    /\ resp.req.type = "archive"
    /\ resp.status >= HTTP_BAD_REQUEST
    /\ background_tasks # {}

\* C21 as stated: the write a get makes for an item it returns changes the
\* last_accessed field of that item's hash and nothing else: no key comes
\* into being, every other hash, the field values, the expiries and the
\* per-user index stay as they were.
C21_GetTouchesLastAccessedOnly ==
    [][(inflight.pc = "touch" /\ inflight'.pc = "read")
          => LET memory_id == inflight.ids[inflight.i] IN
             /\ redisExpire' = redisExpire
             /\ userIndex' = userIndex
             /\ DOMAIN redisHash' = DOMAIN redisHash
             /\ \A mid \in DOMAIN redisHash :
                   redisHash'[mid] =
                       IF mid = memory_id
                       THEN [redisHash[mid] EXCEPT !.last_accessed = now]
                       ELSE redisHash[mid]]_vars

\* the fields store_short_term_memory writes and a reader relies on
PutFields == {"id", "value", "metadata", "created_at"}

\* C27 as stated: every record a get returns carries id, value, metadata
\* and created_at, and a key is in the short-term store only while the last
\* put under it has not run out: an expired item is not back without a put.
C27_GetAgainstExpiry ==
    /\ IsGet => \A i \in DOMAIN resp.memories :
                   PutFields \subseteq DOMAIN resp.memories[i]
    /\ \A mid \in DOMAIN redisHash :
          /\ mid \in DOMAIN lastWrite
          /\ mid \in DOMAIN redisExpire => now < redisExpire[mid]
          /\ PutFields \subseteq DOMAIN redisHash[mid]

\* C22: a health request is always answered with 200; after it each
\* dependency's flag is up exactly if its probe went through, whatever the
\* flag was before; the overall status is "healthy" exactly if both probes
\* went through; and the request changes nothing but the two flags.
C22_HealthCheck ==
    [][(resp'.op = "health_check" /\ now' = now)
          => /\ resp'.status_code = HTTP_OK
             /\ vs_healthy' = resp'.probes.vector_db
             /\ es_healthy' = resp'.probes.embedding_service
             /\ resp'.dependencies.vector_db.status = "healthy" <=> vs_healthy'
             /\ resp'.dependencies.embedding_service.status = "healthy"
                    <=> es_healthy'
             /\ resp'.status = "healthy" <=> (vs_healthy' /\ es_healthy')
             /\ resp'.status \in {"healthy", "unhealthy"}
             /\ UNCHANGED <<storeVars, sessionVars, vs_collection, uuids>>]_vars

\* a health request found the vector store back up after a failed write had
\* taken its flag down, found the embedding provider down, and reported
\* "unhealthy"
C22_Witness ==
    /\ resp.op = "health_check"
    /\ ~resp.before.vector_db /\ resp.probes.vector_db /\ vs_healthy
    /\ resp.before.embedding_service /\ ~resp.probes.embedding_service
    /\ ~es_healthy
    /\ resp.status = "unhealthy"
    /\ resp.status_code = HTTP_OK

\* C23 as stated: the similarity is never a ZeroDivisionError, it is 0 when
\* either vector has magnitude zero, and it is exactly 1 for a nonzero
\* vector and itself.
C23_CosineExactlyOne ==
    resp.op = "similarity" =>
        /\ resp.similarity # ZeroDivisionError
        /\ (Dot(resp.query_embedding, resp.query_embedding) = 0
            \/ Dot(resp.memory_embedding, resp.memory_embedding) = 0)
               => resp.similarity = FloatZero
        /\ (resp.query_embedding = resp.memory_embedding
            /\ Dot(resp.query_embedding, resp.query_embedding) > 0)
               => resp.similarity = FloatOfInt(1)

\* C23: the similarity is never a ZeroDivisionError, it is 0 when either
\* vector has magnitude zero, and for a nonzero vector and itself it is 1
\* up to the rounding of the root, the product and the quotient: within
\* 2^-51 of 1.
C23_Cosine ==
    resp.op = "similarity" =>
        /\ resp.similarity # ZeroDivisionError
        /\ (Dot(resp.query_embedding, resp.query_embedding) = 0
            \/ Dot(resp.memory_embedding, resp.memory_embedding) = 0)
               => resp.similarity = FloatZero
        /\ (resp.query_embedding = resp.memory_embedding
            /\ Dot(resp.query_embedding, resp.query_embedding) > 0)
               => FloatNearOne(resp.similarity)

\* the similarity of the vector (1, 1) and itself came out below 1
C23_Witness ==
    /\ resp.op = "similarity"
    /\ resp.query_embedding = <<1, 1>>
    /\ resp.memory_embedding = <<1, 1>>
    /\ FloatNearOne(resp.similarity)
    /\ resp.similarity # FloatOfInt(1)

\* C24: a get_session_context that is answered leaves the contexts, their
\* expiries and the memory stores alone.  For a session whose last update
\* is less than SESSION_CONTEXT_TTL old it returns the context of that
\* update, whatever earlier updates wrote; for any other session it returns
\* the empty context and writes nothing.
C24_SessionContext ==
    [][(/\ resp'.op = "get_session_context"
        /\ resp'.status = HTTP_OK
        /\ now' = now)
          => LET sid == resp'.req.session_id IN
             /\ UNCHANGED <<sessionContext, sessionExpire, storeVars>>
             /\ IF /\ sid \in DOMAIN lastContext
                   /\ now < lastContext[sid].at + SESSION_CONTEXT_TTL
                THEN resp'.context = lastContext[sid].context
                ELSE /\ resp'.context = EmptyDict
                     /\ sessionMetadata' = sessionMetadata]_vars

\* a session was updated twice, with different contexts, and a later get,
\* the clock having moved on, returned the second one
C24_Witness ==
    /\ resp.op = "get_session_context"
    /\ resp.status = HTTP_OK
    /\ resp.req.session_id \in DOMAIN lastContext
    /\ lastContext[resp.req.session_id].again
    /\ resp.at > lastContext[resp.req.session_id].at
    /\ resp.context = lastContext[resp.req.session_id].context
    /\ resp.context # EmptyDict

\* a get for a session whose context had expired returned the empty context
C24_WitnessExpired ==
    /\ resp.op = "get_session_context"
    /\ resp.status = HTTP_OK
    /\ resp.req.session_id \in DOMAIN lastContext
    /\ lastContext[resp.req.session_id].context # EmptyDict
    /\ resp.at >= lastContext[resp.req.session_id].at + SESSION_CONTEXT_TTL
    /\ resp.context = EmptyDict

\* C25 as stated: a create_memory request whose type is neither short_term
\* nor long_term is answered with status 400.
C25_InvalidTypeIs400 ==
    (resp.op = "create_memory"
     /\ resp.req.type \notin {"short_term", "long_term"})
        => resp.status = HTTP_BAD_REQUEST

\* C26 as stated: two short-term identities that differ in userId or key
\* have different memory ids; the hash under an id of a user's index was
\* put by that user; and every record a get returns carries the userId the
\* get was made for.
C26_UsersKeptApart ==
    /\ \A s \in DOMAIN lastStore, t \in DOMAIN lastStore :
          (s[2] = "short_term" /\ t[2] = "short_term" /\ s # t)
              => MemoryId(s[1], s[2], s[3]) # MemoryId(t[1], t[2], t[3])
    /\ \A u \in DOMAIN userIndex :
          \A mid \in userIndex[u] \cap DOMAIN redisHash :
              redisHash[mid].userId = u
    /\ IsGet => \A i \in DOMAIN resp.memories :
                   resp.memories[i].userId = resp.req.user_id

\* C28 as stated: a short-term item is in the store exactly while the last
\* put under its id allows: always if that put gave no ttl, and for T
\* seconds from that put if it gave the ttl T.
C28_LastPutDecidesExpiry ==
    \A mid \in DOMAIN lastWrite :
        LET w == lastWrite[mid] IN
        w.item.type = "short_term" =>
            (mid \in DOMAIN redisHash
                <=> (~w.item.ttl.given \/ now < w.at + w.item.ttl.secs))

\* the short-term items of the user that are in the store and whose type
\* and key fields are the ones asked for
LiveMatching(user_id, type, key) ==
    {mid \in DOMAIN redisHash :
        /\ redisHash[mid].userId = user_id
        /\ type # "" => redisHash[mid].type = type
        /\ StrGiven(key) => redisHash[mid].key = key}

\* C29 as stated: a get returns the user's live short-term items whose type
\* field is the type asked for and whose key field is the key asked for,
\* and no other record.
C29_GetFiltersByField ==
    IsGet => {resp.memories[i].id : i \in DOMAIN resp.memories}
                 = LiveMatching(resp.req.user_id, resp.req.type, resp.req.key)

\* the aggregate part of a document: its history and its context, or None
\* for each that the document does not hold
AggregatePart(data) ==
    [history |-> DictGet(data, "history", None),
     context |-> DictGet(data, "context", None)]

\* C30: a store_memory that returns has appended one document to the
\* long-term store and changed no other; the document holds the history and
\* the context of the aggregate as the caller passed it, the full history
\* and no summary added, and neither of the two when no aggregate was
\* passed; this whether the summarization ran or not, and however it ended.
C30_DocumentAsGiven ==
    [][(/\ resp'.op = "store_memory"
        /\ uuids' = uuids + 1
        /\ resp'.status = "returned")
          => LET memory == resp'.req.memory
                 parsed == Loads(vs_collection'[Len(vs_collection')].metadata.full_data)
             IN
             /\ Len(vs_collection') = Len(vs_collection) + 1
             /\ SubSeq(vs_collection', 1, Len(vs_collection)) = vs_collection
             /\ parsed.ok
             /\ AggregatePart(parsed.val) =
                    IF Truthy(memory)
                    THEN [history |-> DictGet(memory, "history", List(<<>>)),
                          context |-> DictGet(memory, "context", EmptyDict)]
                    ELSE [history |-> None, context |-> None]]_vars

\* a store_memory summarized the caller's aggregate, and the document it
\* wrote holds the history in full and the context without a summary
C30_Witness ==
    /\ resp.op = "store_memory"
    /\ resp.status = "returned"
    /\ resp.summarized
    /\ vs_collection # <<>>
    /\ LET data == Loads(vs_collection[Len(vs_collection)].metadata.full_data).val
       IN /\ vs_collection[Len(vs_collection)].id = resp.memory_id
          /\ Len(DictGet(data, "history", List(<<>>)).v) > SUMMARIZE_OVER
          /\ DictGet(data, "history", None) = DictGet(resp.req.memory, "history", None)
          /\ "conversation_summary" \notin DictKeys(DictGet(data, "context", EmptyDict))
          /\ "conversation_summary" \in DictKeys(DictGet(resp.memory, "context", EmptyDict))
=========================================================================
